---- MODULE Spec2Model ----
(***************************************************************************)
(* Model of the Bitbucket SCM adapter (src/index.js): the in-memory        *)
(* service token and its refresh (_getToken/_refreshToken), the read       *)
(* facade calls that wait on it, the webhook normalizer (_parseHook,       *)
(* _canHandleWebhook) and the webhook registrar (_addWebhook,              *)
(* _findWebhook, _createWebhook).                                          *)
(*                                                                         *)
(* Execution model: node's single thread.  A facade call runs without      *)
(* interruption from one network round trip to the next; every action      *)
(* below is one such run (the start of a call, or the arrival of one       *)
(* response with everything the code does until it next waits on the      *)
(* network).                                                               *)
(***************************************************************************)
EXTENDS Integers, Sequences, FiniteSets, TLC

VARIABLES
    token,          \* this.token          (src/index.js:129)
    refreshToken,   \* this.refreshToken   (src/index.js:130)
    expiresIn,      \* this.expiresIn      (src/index.js:131), epoch milliseconds
    now,            \* (new Date()).getTime()
    calls,          \* the facade calls in progress, one record per caller slot
    issued,         \* token endpoint: how many tokens it has issued
    lastIssued,     \* history: the last 200 token response the adapter processed
    hookHeaders,    \* _parseHook input: headers
    hookPayload,    \* _parseHook input: payload
    hookResult,     \* _parseHook outcome
    canResult,      \* _canHandleWebhook outcome
    repoHooks,      \* provider: the urls of the repository's webhooks, in listing
                    \* order (a hook's uuid is its position)
    regs,           \* the _addWebhook calls in progress, one record per caller slot
    urlCall,        \* the _parseUrl call in progress
    permCall,       \* the _getPermissions call in progress
    checked         \* checkResponseError: the response given and the outcome

tokenVars == <<token, refreshToken, expiresIn>>
hookVars == <<hookHeaders, hookPayload, hookResult, canResult>>
regVars == <<repoHooks, regs>>
opVars == <<urlCall, permCall, checked>>
vars == <<token, refreshToken, expiresIn, now, calls, issued, lastIssued,
          hookHeaders, hookPayload, hookResult, canResult, repoHooks, regs,
          urlCall, permCall, checked>>

----------------------------------------------------------------------------
(* Bounds *)

MaxCalls == 2       \* caller slots (facade calls that can overlap)
MaxTicks == 6       \* the clock stops at MaxTicks steps of the clock
MaxIssued == 3      \* tokens the token endpoint issues in one run
MaxPages == 3       \* hook pages one _findWebhook search requests at most

Calls == 1..MaxCalls
ClockSteps == {5000}                 \* milliseconds the clock advances at once
StartTicks == {2}                    \* the clock starts at 2 steps (10000 ms)
ExpiresInChoices == {10, 15}         \* expires_in of a token answer, seconds
                                     \* (Bitbucket's 1-2 hours, scaled down)

----------------------------------------------------------------------------
(* Values *)

EMPTY == <<>>                         \* the empty string ''
AccessToken(n) == <<"access", n>>     \* the n-th access_token of the endpoint
RefreshTokenOf(n) == <<"refresh", n>> \* the n-th refresh_token of the endpoint
NoBody == [none |-> TRUE]
None == [none |-> TRUE]

hostname == "bitbucket.org"
config == [oauthClientId |-> "myclientid", oauthClientSecret |-> "myclientsecret"]

\* the 5s buffer of _getToken
TokenBuffer == 5000

----------------------------------------------------------------------------
(* Token manager *)

\* _getToken's test: this.expiresIn < (new Date()).getTime() - 5000
NeedsRefresh(exp, t) == exp < t - TokenBuffer

\* Mutant of RefreshForm: the grant never switches to refresh_token.
RefreshFormAlwaysInitial(tok, rt) == [grant_type |-> "client_credentials"]

\* _refreshToken's params.form
RefreshForm(tok, rt) ==
    IF tok = EMPTY
    THEN [grant_type |-> "client_credentials"]
    ELSE [grant_type |-> "refresh_token", refresh_token |-> rt]

\* _refreshToken's params
RefreshParams(tok, rt) ==
    [method |-> "POST",
     auth |-> [user |-> config.oauthClientId, pass |-> config.oauthClientSecret],
     url |-> <<"https://", hostname, "/site/oauth2/access_token">>,
     form |-> RefreshForm(tok, rt)]

\* The body of a 200 answer of the token endpoint: its n-th token pair.
TokenBody(n, secs) ==
    [access_token |-> AccessToken(n), refresh_token |-> RefreshTokenOf(n),
     expires_in |-> secs]

\* Mutant of StoreToken: the refresh token of the answer is not kept.
StoreTokenDropRefresh(body, t) ==
    /\ token' = body.access_token
    /\ refreshToken' = refreshToken
    /\ expiresIn' = t + (body.expires_in * 1000)

\* Mutant of StoreToken: an answer is dropped when another refresh has
\* already stored a fresh token (first writer wins).
StoreTokenFirstWins(body, t) ==
    IF NeedsRefresh(expiresIn, t)
    THEN /\ token' = body.access_token
         /\ refreshToken' = body.refresh_token
         /\ expiresIn' = t + (body.expires_in * 1000)
    ELSE UNCHANGED <<token, refreshToken, expiresIn>>

\* Mutant of StoreToken: an expiry later than the answer's is kept.
StoreTokenKeepLaterExpiry(body, t) ==
    /\ token' = body.access_token
    /\ refreshToken' = body.refresh_token
    /\ expiresIn' = IF expiresIn > t + (body.expires_in * 1000)
                    THEN expiresIn
                    ELSE t + (body.expires_in * 1000)

\* _refreshToken's three assignments after a 200 answer, made at time t
StoreToken(body, t) ==
    /\ token' = body.access_token
    /\ refreshToken' = body.refresh_token
    /\ expiresIn' = t + (body.expires_in * 1000)

----------------------------------------------------------------------------
(* Facade calls *)

\* The read facade methods modelled: one of a single request (_decorateUrl, the
\* shape of _getFile, _getOpenedPRs, _getPrInfo and _getCommitSha too) and one
\* chained (_decorateCommit, which goes on into _decorateAuthor and its 404
\* fallback).
ReadOps == {"decorateUrl", "decorateCommit"}
ApiStatuses == {200, 404, 500}
TokenFailures == {"non200", "badjson", "reject"}

IdleCall ==
    [stage |-> "none",      \* the method now running (a chained call moves on)
     pc |-> "idle",         \* idle, refreshing, requesting, resolved, rejected
     params |-> None,       \* the token-endpoint request in flight
     bearer |-> EMPTY,      \* auth.bearer of the API request in flight
     uuidName |-> FALSE]    \* config.username matches /^\{.*\}/

InFlight(rec) == rec.pc \in {"refreshing", "requesting"}

\* The facade method's promise settles; nothing of the call stays in flight.
Settle(pc) == [IdleCall EXCEPT !.pc = pc]

\* `await this._getToken()` returned tok; the facade method sends its request.
SendApi(rec, tok) ==
    [rec EXCEPT !.pc = "requesting", !.bearer = tok, !.params = None]

\* `const token = await this._getToken()` at the head of a facade method:
\* either _refreshToken's request goes out, or the stored token is returned
\* and the method's API request goes out.
GetToken(c, rec) ==
    /\ calls' = [calls EXCEPT ![c] =
        IF NeedsRefresh(expiresIn, now)
        THEN [rec EXCEPT !.pc = "refreshing",
                         !.params = RefreshParams(token, refreshToken)]
        ELSE SendApi(rec, token)]
    /\ UNCHANGED <<tokenVars, issued, lastIssued>>

\* The caller invokes a read facade method on slot c.
Start(c, op) ==
    /\ ~InFlight(calls[c])
    /\ GetToken(c, [IdleCall EXCEPT !.stage = op])
    /\ UNCHANGED <<now, hookVars, opVars, regVars>>

\* The token endpoint answers 200: _refreshToken stores the answer, _getToken
\* returns this.token and the facade method sends its API request.
TokenResponseOK(c, secs) ==
    /\ calls[c].pc = "refreshing"
    /\ issued < MaxIssued
    /\ LET body == TokenBody(issued + 1, secs) IN
        /\ StoreToken(body, now)
        /\ lastIssued' = [body |-> body, at |-> now]
    /\ issued' = issued + 1
    /\ calls' = [calls EXCEPT ![c] = SendApi(calls[c], token')]
    /\ UNCHANGED <<now, hookVars, opVars, regVars>>

\* Mutant of TokenResponseFail: the failure is swallowed and the facade
\* method goes on with whatever token is stored.
TokenResponseFailSwallowed(c, kind) ==
    /\ calls[c].pc = "refreshing"
    /\ kind \in TokenFailures
    /\ calls' = [calls EXCEPT ![c] = SendApi(calls[c], token)]
    /\ UNCHANGED <<tokenVars, now, issued, lastIssued, hookVars, opVars, regVars>>

\* Mutant of TokenResponseFail: the failure clears the stored token.
TokenResponseFailClears(c, kind) ==
    /\ calls[c].pc = "refreshing"
    /\ kind \in TokenFailures
    /\ calls' = [calls EXCEPT ![c] = Settle("rejected")]
    /\ token' = EMPTY
    /\ refreshToken' = EMPTY
    /\ expiresIn' = 0
    /\ UNCHANGED <<now, issued, lastIssued, hookVars, opVars, regVars>>

\* The token endpoint answers non-200, or with a body JSON.parse rejects, or
\* the executor rejects: _refreshToken throws and so does the facade method.
TokenResponseFail(c, kind) ==
    /\ calls[c].pc = "refreshing"
    /\ kind \in TokenFailures
    /\ calls' = [calls EXCEPT ![c] = Settle("rejected")]
    /\ UNCHANGED <<tokenVars, now, issued, lastIssued, hookVars, opVars, regVars>>

\* The API answers the request of the method running in slot c.
ApiResponse(c, status, uuid) ==
    /\ calls[c].pc = "requesting"
    /\ LET rec == calls[c] IN
        CASE rec.stage = "decorateCommit" /\ status = 200 ->
                \* return this._decorateAuthor({username: body.author.user.uuid})
                GetToken(c, [rec EXCEPT !.stage = "decorateAuthor", !.uuidName = uuid])
          [] rec.stage = "decorateAuthor" /\ status = 404 /\ ~rec.uuidName ->
                /\ uuid = FALSE
                /\ calls' = [calls EXCEPT ![c] = Settle("resolved")]
                /\ UNCHANGED <<tokenVars, issued, lastIssued>>
          [] OTHER ->
                /\ uuid = FALSE
                /\ calls' = [calls EXCEPT ![c] =
                    IF status = 200 THEN Settle("resolved") ELSE Settle("rejected")]
                /\ UNCHANGED <<tokenVars, issued, lastIssued>>
    /\ UNCHANGED <<now, hookVars, opVars, regVars>>

\* Mutant of ApiReject: a transport error makes the adapter forget its token.
ApiRejectDropsToken(c) ==
    /\ calls[c].pc = "requesting"
    /\ calls' = [calls EXCEPT ![c] = Settle("rejected")]
    /\ token' = EMPTY
    /\ UNCHANGED <<refreshToken, expiresIn, now, issued, lastIssued, hookVars, opVars, regVars>>

\* The executor rejects the API request of slot c (a transport error).
ApiReject(c) ==
    /\ calls[c].pc = "requesting"
    /\ calls' = [calls EXCEPT ![c] = Settle("rejected")]
    /\ UNCHANGED <<tokenVars, now, issued, lastIssued, hookVars, opVars, regVars>>

\* The clock advances.
Tick(d) ==
    /\ now + d <= MaxTicks * d
    /\ now' = now + d
    /\ UNCHANGED <<tokenVars, calls, issued, lastIssued, hookVars, opVars, regVars>>

\* A _parseUrl call, before it is made.
IdleUrl ==
    [pc |-> "idle",         \* idle, refreshing, requesting, resolved, rejected
     checkoutUrl |-> None,  \* config.checkoutUrl, as the parts it was written from
     params |-> None,       \* the token-endpoint request in flight
     req |-> None,          \* the options of the API request in flight
     sent |-> 0,            \* history: requests of this call, of either kind
     parts |-> None,        \* history: the parts the checkout URL was written from
     body |-> None,         \* history: the body the provider answered with
     branch |-> <<>>,       \* the branch of the request
     result |-> None]       \* what the promise settled with

\* A _getPermissions call, before it is made.
IdlePerm ==
    [pc |-> "idle",         \* idle, refreshing, existence, probing, resolved, rejected
     params |-> None,       \* the token-endpoint request in flight
     req |-> None,          \* the options of the existence request in flight
     exists |-> None,       \* history: the answer to the existence request
     probes |-> <<>>,       \* the getPerm calls, in the order of Promise.all
     result |-> None]       \* what the promise settled with

\* No call of parseUrl, getPermissions or checkResponseError made.
IdleOps ==
    /\ urlCall = IdleUrl
    /\ permCall = IdlePerm
    /\ checked = None

\* An _addWebhook call, before it is made.
IdleReg ==
    [pc |-> "idle",         \* idle, refreshing, finding, writing, resolved, rejected
                            \* (posting: the POST of _updateCommitStatus is out)
     actions |-> <<>>,      \* config.actions
     page |-> 0,            \* config.page of the _findWebhook now running (of
                            \* the one that failed, once the call is rejected)
     gets |-> 0,            \* history: hook pages requested by this call
     params |-> None,       \* the token-endpoint request in flight
     req |-> None,          \* the API request in flight
     last |-> None,         \* history: the last API answer to this call
     error |-> None]        \* what the call rejected with

----------------------------------------------------------------------------
(* JavaScript values.  A string is the sequence of its chunks (the pieces   *)
(* the code's split, parse and concatenation work on).                     *)

Undefined == [t |-> "undefined"]
Null == [t |-> "null"]
Str(chunks) == [t |-> "string", s |-> chunks]
Num(n) == [t |-> "number", n |-> n]
Bool(b) == [t |-> "boolean", b |-> b]
Obj(fields) == [t |-> "object", f |-> fields]
Arr(elems) == [t |-> "array", e |-> elems]
EmptyObj == [k \in {} |-> Undefined]

\* obj[key]
Prop(obj, key) ==
    IF obj.t = "object" /\ key \in DOMAIN obj.f THEN obj.f[key] ELSE Undefined

\* hoek.reach(obj, 'a.b.c'), path given as its keys
RECURSIVE Reach(_, _)
Reach(obj, path) ==
    IF path = <<>> THEN obj
    ELSE IF obj.t = "object" /\ Head(path) \in DOMAIN obj.f
         THEN Reach(obj.f[Head(path)], Tail(path))
         ELSE Undefined

\* hoek.reach(obj, path, { default: d })
ReachDefault(obj, path, d) ==
    LET v == Reach(obj, path) IN IF v = Undefined THEN d ELSE v

\* `${v}` in a template literal: the chunks v contributes to the string
\* (an array is joined with ',', its null and undefined elements empty)
RECURSIVE TemplateString(_)
RECURSIVE JoinElems(_)
TemplateString(v) ==
    CASE v.t = "string" -> v.s
      [] v.t = "number" -> <<ToString(v.n)>>
      [] v.t = "boolean" -> <<IF v.b THEN "true" ELSE "false">>
      [] v.t = "array" -> JoinElems(v.e)
      [] v.t = "object" -> <<"[object Object]">>
      [] OTHER -> <<v.t>>                \* 'undefined', 'null'
JoinElems(e) ==
    IF e = <<>> THEN <<>>
    ELSE (IF Head(e).t \in {"undefined", "null"} THEN <<>> ELSE TemplateString(Head(e)))
         \o (IF Len(e) = 1 THEN <<>> ELSE <<",">>)
         \o JoinElems(Tail(e))

\* JSON.stringify(v), as chunks; of undefined it is undefined, an object's
\* undefined properties are left out and an array's are written null.  The
\* keys of an object are written in one fixed order.
RECURSIVE JsonStringify(_)
RECURSIVE JsonFields(_, _)
RECURSIVE JsonElems(_)
JsonStringify(v) ==
    CASE v.t = "string" -> Str(<<"\"">> \o v.s \o <<"\"">>)
      [] v.t = "number" -> Str(<<ToString(v.n)>>)
      [] v.t = "boolean" -> Str(<<IF v.b THEN "true" ELSE "false">>)
      [] v.t = "null" -> Str(<<"null">>)
      [] v.t = "array" -> Str(<<"[">> \o JsonElems(v.e) \o <<"]">>)
      [] v.t = "object" ->
            Str(<<"{">>
                \o JsonFields(v.f, {k \in DOMAIN v.f : v.f[k] # Undefined})
                \o <<"}">>)
      [] OTHER -> Undefined
JsonFields(f, keys) ==
    IF keys = {} THEN <<>>
    ELSE LET k == CHOOSE x \in keys : TRUE
         IN <<"\"", k, "\":">> \o JsonStringify(f[k]).s
            \o (IF keys = {k} THEN <<>> ELSE <<",">>)
            \o JsonFields(f, keys \ {k})
JsonElems(e) ==
    IF e = <<>> THEN <<>>
    ELSE (IF Head(e) = Undefined THEN <<"null">> ELSE JsonStringify(Head(e)).s)
         \o (IF Len(e) = 1 THEN <<>> ELSE <<",">>)
         \o JsonElems(Tail(e))

\* String.prototype.split(sep) on the chunks of a string
RECURSIVE Split(_, _)
Split(text, sep) ==
    IF \A i \in 1..Len(text) : text[i] # sep
    THEN <<text>>
    ELSE LET i == CHOOSE j \in 1..Len(text) :
                    text[j] = sep /\ \A k \in 1..(j - 1) : text[k] # sep
         IN <<SubSeq(text, 1, i - 1)>> \o Split(SubSeq(text, i + 1, Len(text)), sep)

\* array[i] of JavaScript (0-based): the element, or undefined
At(seq, i) == IF i + 1 \in 1..Len(seq) THEN seq[i + 1] ELSE Undefined

\* String.prototype.startsWith(prefix) on the chunks of a string
StartsWith(text, prefix) ==
    Len(text) >= Len(prefix) /\ SubSeq(text, 1, Len(prefix)) = prefix

\* The lexical classes of the chunks of a URL.
ProtocolChunks == {"https:", "http:"}
AuthChunks == {"batman@"}
PortChunks == {":8080"}
PathChunks == {"/batman/test"}
SlashChunks == {"//"}
IsHostChunk(ch) ==
    ch \notin ProtocolChunks \cup AuthChunks \cup PortChunks \cup PathChunks
              \cup SlashChunks

\* url.parse(text): the components _parseHook reads
UrlParse(text) ==
    [protocol |-> SelectSeq(text, LAMBDA ch : ch \in ProtocolChunks),
     auth |-> SelectSeq(text, LAMBDA ch : ch \in AuthChunks),
     hostname |-> SelectSeq(text, IsHostChunk),
     pathname |-> SelectSeq(text, LAMBDA ch : ch \in PathChunks)]

----------------------------------------------------------------------------
(* Webhook normalizer *)

NoHook == [none |-> TRUE]
Resolved(v) == [k |-> "resolved", v |-> v]     \* Promise.resolve(v)
Thrown(e) == [k |-> "thrown", e |-> e]         \* the method throws (no promise)

\* _getScmContexts()[0]
ScmContext == Str(<<"bitbucket:", hostname>>)

\* Mutant of CheckoutUrl: the credentials of the link are kept in the URL.
CheckoutUrlWithAuth(link) ==
    Str(link.protocol \o <<"//">> \o link.auth \o link.hostname \o link.pathname
        \o <<".git">>)

\* `${link.protocol}//${link.hostname}${link.pathname}.git`
CheckoutUrl(link) ==
    Str(link.protocol \o <<"//">> \o link.hostname \o link.pathname \o <<".git">>)

\* case 'repo' of _parseHook, after the action test
ParseRepoPush(headers, payload) ==
    LET changes == Reach(payload, <<"push", "changes">>)
        href == Reach(payload, <<"repository", "links", "html", "href">>)
    IN  IF href.t # "string" THEN Thrown("TypeError")              \* url.parse
        ELSE IF changes.t \in {"undefined", "null"} THEN Thrown("TypeError") \* changes[0]
        ELSE LET first == IF changes.t = "array" THEN At(changes.e, 0) ELSE Undefined
             IN Resolved(Obj(
                [hookId |-> Prop(headers, "x-request-uuid"),
                 scmContext |-> ScmContext,
                 type |-> Str(<<"repo">>),
                 action |-> Str(<<"push">>),
                 username |-> Reach(payload, <<"actor", "uuid">>),
                 checkoutUrl |-> CheckoutUrl(UrlParse(href.s)),
                 branch |-> Reach(first, <<"new", "name">>),
                 sha |-> Reach(first, <<"new", "target", "hash">>),
                 lastCommitMessage |->
                    ReachDefault(first, <<"new", "target", "message">>, Str(<<>>))]))

\* Mutant of PullRequestAction: an unknown action falls through with no
\* parsed.action instead of returning null.
PullRequestActionFallThrough(actionHeader) ==
    CASE actionHeader = Str(<<"created">>) -> Str(<<"opened">>)
      [] actionHeader = Str(<<"updated">>) -> Str(<<"synchronized">>)
      [] actionHeader = Str(<<"fullfilled">>) \/ actionHeader = Str(<<"rejected">>) ->
            Str(<<"closed">>)
      [] OTHER -> Undefined

\* Mutant of PullRequestAction: the merged event is matched under Bitbucket's
\* spelling, 'fulfilled'.
PullRequestActionFulfilled(actionHeader) ==
    CASE actionHeader = Str(<<"created">>) -> Str(<<"opened">>)
      [] actionHeader = Str(<<"updated">>) -> Str(<<"synchronized">>)
      [] actionHeader = Str(<<"fulfilled">>) \/ actionHeader = Str(<<"rejected">>) ->
            Str(<<"closed">>)
      [] OTHER -> Null

\* case 'pullrequest' of _parseHook: parsed.action, or Null for `return
\* Promise.resolve(null)`
PullRequestAction(actionHeader) ==
    CASE actionHeader = Str(<<"created">>) -> Str(<<"opened">>)
      [] actionHeader = Str(<<"updated">>) -> Str(<<"synchronized">>)
      [] actionHeader = Str(<<"fullfilled">>) \/ actionHeader = Str(<<"rejected">>) ->
            Str(<<"closed">>)
      [] OTHER -> Null

\* Mutant of ParsePullRequest: a payload without the repository link gives
\* null instead of an exception.
ParsePullRequestGuarded(headers, action, payload) ==
    LET href == Reach(payload, <<"repository", "links", "html", "href">>)
    IN  IF href.t # "string" THEN Resolved(Null)
        ELSE Resolved(Obj(
                [hookId |-> Prop(headers, "x-request-uuid"),
                 scmContext |-> ScmContext,
                 action |-> action,
                 type |-> Str(<<"pr">>),
                 username |-> Reach(payload, <<"actor", "uuid">>),
                 checkoutUrl |-> CheckoutUrl(UrlParse(href.s)),
                 branch |-> Reach(payload, <<"pullrequest", "destination", "branch", "name">>),
                 sha |-> Reach(payload, <<"pullrequest", "source", "commit", "hash">>),
                 prNum |-> Reach(payload, <<"pullrequest", "id">>),
                 prRef |-> Reach(payload, <<"pullrequest", "source", "branch", "name">>)]))

\* Mutant of ParsePullRequest: branch and prRef are taken from the wrong
\* ends of the pull request.
ParsePullRequestSwapped(headers, action, payload) ==
    LET href == Reach(payload, <<"repository", "links", "html", "href">>)
    IN  IF href.t # "string" THEN Thrown("TypeError")
        ELSE Resolved(Obj(
                [hookId |-> Prop(headers, "x-request-uuid"),
                 scmContext |-> ScmContext,
                 action |-> action,
                 type |-> Str(<<"pr">>),
                 username |-> Reach(payload, <<"actor", "uuid">>),
                 checkoutUrl |-> CheckoutUrl(UrlParse(href.s)),
                 branch |-> Reach(payload, <<"pullrequest", "source", "branch", "name">>),
                 sha |-> Reach(payload, <<"pullrequest", "source", "commit", "hash">>),
                 prNum |-> Reach(payload, <<"pullrequest", "id">>),
                 prRef |-> Reach(payload, <<"pullrequest", "destination", "branch", "name">>)]))

\* case 'pullrequest' of _parseHook, after parsed.action is set
ParsePullRequest(headers, action, payload) ==
    LET href == Reach(payload, <<"repository", "links", "html", "href">>)
    IN  IF href.t # "string" THEN Thrown("TypeError")              \* url.parse
        ELSE Resolved(Obj(
                [hookId |-> Prop(headers, "x-request-uuid"),
                 scmContext |-> ScmContext,
                 action |-> action,
                 type |-> Str(<<"pr">>),
                 username |-> Reach(payload, <<"actor", "uuid">>),
                 checkoutUrl |-> CheckoutUrl(UrlParse(href.s)),
                 branch |-> Reach(payload, <<"pullrequest", "destination", "branch", "name">>),
                 sha |-> Reach(payload, <<"pullrequest", "source", "commit", "hash">>),
                 prNum |-> Reach(payload, <<"pullrequest", "id">>),
                 prRef |-> Reach(payload, <<"pullrequest", "source", "branch", "name">>)]))

\* _parseHook(headers, payload)
ParseHook(headers, payload) ==
    LET key == Prop(headers, "x-event-key") IN
    IF key.t # "string" THEN Thrown("TypeError")                   \* .split
    ELSE
    LET parts == Split(key.s, ":")
        typeHeader == Str(parts[1])
        actionHeader == IF Len(parts) >= 2 THEN Str(parts[2]) ELSE Undefined
    IN  CASE typeHeader = Str(<<"repo">>) ->
                IF actionHeader # Str(<<"push">>)
                THEN Resolved(Null)
                ELSE ParseRepoPush(headers, payload)
          [] typeHeader = Str(<<"pullrequest">>) ->
                LET action == PullRequestAction(actionHeader) IN
                IF action = Null
                THEN Resolved(Null)
                ELSE ParsePullRequest(headers, action, payload)
          [] OTHER -> Resolved(Null)

\* Mutant of ThenCanHandle: the hostname is looked for at the start of the
\* whole URL, not after '//'.
ThenCanHandleWholeUrl(parseResult) ==
    IF parseResult = Null THEN Resolved(Bool(FALSE))
    ELSE LET checkoutUrl == Prop(parseResult, "checkoutUrl") IN
         IF checkoutUrl.t # "string" THEN Thrown("TypeError")
         ELSE Resolved(Bool(StartsWith(checkoutUrl.s, <<hostname>>)))

\* The callback _canHandleWebhook chains on _parseHook's promise.
ThenCanHandle(parseResult) ==
    IF parseResult = Null THEN Resolved(Bool(FALSE))
    ELSE LET checkoutUrl == Prop(parseResult, "checkoutUrl") IN
         IF checkoutUrl.t # "string" THEN Thrown("TypeError")      \* undefined.split
         ELSE LET parts == Split(checkoutUrl.s, "//") IN
              IF Len(parts) < 2 THEN Thrown("TypeError")           \* undefined.startsWith
              ELSE Resolved(Bool(StartsWith(parts[2], <<hostname>>)))

\* _canHandleWebhook(headers, payload): _parseHook is called first, outside
\* the promise chain (it is not an async function, so what it throws is thrown
\* by _canHandleWebhook itself); .then runs the callback on what it resolved
\* to, and .catch maps what the callback throws to false.
CanHandleWebhook(headers, payload) ==
    LET parsed == ParseHook(headers, payload) IN
    IF parsed.k = "thrown" THEN parsed
    ELSE LET r == ThenCanHandle(parsed.v) IN
         IF r.k = "thrown" THEN Resolved(Bool(FALSE)) ELSE r

\* The webhook deliveries considered.
Kinds == {"repo", "pullrequest", "issue"}
Actions == {"push", "fork", "created", "updated", "fullfilled", "fulfilled",
            "rejected", "comment_created"}
EventKeys == {<<kd, ":", a>> : kd \in Kinds, a \in Actions} \cup {<<"repo">>, <<"push">>}

HookHeaders ==
    {Obj(ek @@ id) :
        ek \in {EmptyObj} \cup {"x-event-key" :> Str(key) : key \in EventKeys},
        id \in {EmptyObj, "x-request-uuid" :> Str(<<"1e8d4e8e">>)}}

Hrefs == {<<"https:", "//", "bitbucket.org", "/batman/test">>,
          <<"https:", "//", "batman@", "bitbucket.org", "/batman/test">>,
          <<"https:", "//", "bitbucket.org", ".example.com", "/batman/test">>,
          <<"https:", "//", "github.com", "/batman/test">>}

Change(name, msg) ==
    Obj([new |-> Obj([name |-> Str(<<name>>),
                      target |-> Obj(("hash" :> Str(<<"9ff49b2d">>)) @@ msg)])])

ActorParts == {EmptyObj, "actor" :> Obj([uuid |-> Str(<<"robin">>)])}
RepositoryParts ==
    {EmptyObj, "repository" :> Obj([links |-> Obj(EmptyObj)])}
    \cup {"repository" :> Obj([links |-> Obj([html |-> Obj([href |-> Str(h)])])]) :
            h \in Hrefs}
PushParts ==
    {EmptyObj,
     "push" :> Obj([changes |-> Arr(<<>>)]),
     "push" :> Obj([changes |-> Arr(<<Change("stuff", EmptyObj)>>)]),
     "push" :> Obj([changes |->
        Arr(<<Change("stuff", "message" :> Str(<<"testpayload">>)),
              Change("other", EmptyObj)>>)])}
PullRequestParts ==
    {EmptyObj,
     "pullrequest" :> Obj([id |-> Num(3)]),
     "pullrequest" :> Obj(
        [id |-> Num(3),
         destination |-> Obj([branch |-> Obj([name |-> Str(<<"master">>)])]),
         source |-> Obj([branch |-> Obj([name |-> Str(<<"mynewbranch">>)]),
                         commit |-> Obj([hash |-> Str(<<"40171b678527">>)])])])}

HookPayloads ==
    {Obj(a @@ r @@ p @@ q) :
        a \in ActorParts, r \in RepositoryParts, p \in PushParts,
        q \in PullRequestParts}

\* A webhook is delivered and _parseHook runs on it.
ParseHookCall ==
    /\ hookResult = NoHook
    /\ hookResult' = ParseHook(hookHeaders, hookPayload)
    /\ UNCHANGED <<tokenVars, now, calls, issued, lastIssued, hookHeaders, hookPayload,
                   canResult, regVars, opVars>>

\* A webhook is delivered and _canHandleWebhook runs on it.
CanHandleWebhookCall ==
    /\ canResult = NoHook
    /\ canResult' = CanHandleWebhook(hookHeaders, hookPayload)
    /\ UNCHANGED <<tokenVars, now, calls, issued, lastIssued, hookHeaders, hookPayload,
                   hookResult, regVars, opVars>>

\* The adapter after its constructor, and one webhook delivery about to be parsed.
InitHook ==
    /\ token = EMPTY
    /\ refreshToken = EMPTY
    /\ expiresIn = 0
    /\ now \in {s * d : s \in StartTicks, d \in ClockSteps}
    /\ calls = [c \in Calls |-> IdleCall]
    /\ issued = 0
    /\ lastIssued = NoBody
    /\ hookHeaders \in HookHeaders
    /\ hookPayload \in HookPayloads
    /\ hookResult = NoHook
    /\ canResult = NoHook
    /\ IdleOps
    /\ repoHooks = <<>>
    /\ regs = [c \in Calls |-> IdleReg]

NextHook ==
    \/ ParseHookCall
    \/ CanHandleWebhookCall

SpecHook == InitHook /\ [][NextHook]_vars

----------------------------------------------------------------------------
(* The token manager and the read calls as one system *)

\* The adapter after its constructor (src/index.js:129-131), no call made.
Init ==
    /\ token = EMPTY
    /\ refreshToken = EMPTY
    /\ expiresIn = 0
    /\ now \in {s * d : s \in StartTicks, d \in ClockSteps}
    /\ calls = [c \in Calls |-> IdleCall]
    /\ issued = 0
    /\ lastIssued = NoBody
    /\ hookHeaders = NoHook
    /\ hookPayload = NoHook
    /\ hookResult = NoHook
    /\ canResult = NoHook
    /\ IdleOps
    /\ repoHooks = <<>>
    /\ regs = [c \in Calls |-> IdleReg]

Next ==
    \/ \E c \in Calls, op \in ReadOps : Start(c, op)
    \/ \E c \in Calls, secs \in ExpiresInChoices : TokenResponseOK(c, secs)
    \/ \E c \in Calls, kind \in TokenFailures : TokenResponseFail(c, kind)
    \/ \E c \in Calls, status \in ApiStatuses, uuid \in BOOLEAN : ApiResponse(c, status, uuid)
    \/ \E c \in Calls : ApiReject(c)
    \/ \E d \in ClockSteps : Tick(d)

Spec == Init /\ [][Next]_vars

\* The same adapter under a caller that never overlaps two calls.
StartAlone(c, op) ==
    /\ \A d \in Calls : ~InFlight(calls[d])
    /\ Start(c, op)

NextSeq ==
    \/ \E c \in Calls, op \in ReadOps : StartAlone(c, op)
    \/ \E c \in Calls, secs \in ExpiresInChoices : TokenResponseOK(c, secs)
    \/ \E c \in Calls, kind \in TokenFailures : TokenResponseFail(c, kind)
    \/ \E c \in Calls, status \in ApiStatuses, uuid \in BOOLEAN : ApiResponse(c, status, uuid)
    \/ \E c \in Calls : ApiReject(c)
    \/ \E d \in ClockSteps : Tick(d)

SpecSeq == Init /\ [][NextSeq]_vars

----------------------------------------------------------------------------
(* Webhook registrar: _addWebhook, _findWebhook, _createWebhook *)

API_URL_V2 == "https://api.bitbucket.org/2.0"
WEBHOOK_PAGE_SIZE == 30

\* _getWebhookEventsMapping()
WebhookEventsMapping ==
    [pr |-> <<<<"pullrequest", ":", "created">>,
              <<"pullrequest", ":", "fulfilled">>,
              <<"pullrequest", ":", "rejected">>,
              <<"pullrequest", ":", "updated">>>>,
     commit |-> <<"push">>]

\* checkResponseError(response): None when it returns, else the error thrown
\* Mutant of CheckResponseError: only 200 is taken for a success.
CheckResponseErrorOnly200(response) ==
    IF response.statusCode = 200
    THEN None
    ELSE LET errorMessage ==
                ReachDefault(response.body, <<"error", "message">>,
                    Str(<<"SCM service unavailable (", ToString(response.statusCode), ").">>))
             errorReason ==
                ReachDefault(response.body, <<"error", "detail", "required">>,
                    JsonStringify(response.body))
         IN [code |-> response.statusCode,
             message |-> TemplateString(errorMessage) \o <<" Reason \"">>
                         \o TemplateString(errorReason) \o <<"\"">>]

\* checkResponseError(response), with the message and the code of the error
CheckResponseError(response) ==
    IF response.statusCode >= 200 /\ response.statusCode < 300
    THEN None
    ELSE LET errorMessage ==
                ReachDefault(response.body, <<"error", "message">>,
                    Str(<<"SCM service unavailable (", ToString(response.statusCode), ").">>))
             errorReason ==
                ReachDefault(response.body, <<"error", "detail", "required">>,
                    JsonStringify(response.body))
         IN [code |-> response.statusCode,
             message |-> TemplateString(errorMessage) \o <<" Reason \"">>
                         \o TemplateString(errorReason) \o <<"\"">>]

\* getScmUriParts(scmUri)
GetScmUriParts(scmUri) ==
    LET parts == Split(scmUri, ":")
    IN [hostname |-> parts[1], repoId |-> parts[2], branch |-> parts[3]]

\* The config of the _addWebhook calls considered, but for config.actions.
AddWebhookConfig ==
    [scmUri |-> <<"hostName", ":", "repoId", ":", "branchName">>,
     token |-> <<"oauthToken">>,
     webhookUrl |-> "url"]
HookActions == {<<>>, <<<<"pullrequest", ":", "created">>>>}

\* The hook collections a repository starts with, as <<n, k>>: n hooks, the
\* k-th of them with the target's url (k = 0: none), the others with other
\* urls.
HookShapes == {<<0, 0>>, <<30, 0>>, <<30, 30>>, <<31, 31>>}
InitialHooks ==
    {[i \in 1..sh[1] |-> IF i = sh[2] THEN "url" ELSE "other"] : sh \in HookShapes}

\* Provider: page `page` of the listing with pagelen=30, as body.values
HooksPage(hooks, page) ==
    LET first == (page - 1) * 30 + 1
        last == IF page * 30 < Len(hooks) THEN page * 30 ELSE Len(hooks)
    IN [i \in 1..(IF last >= first THEN last - first + 1 ELSE 0) |->
            [url |-> hooks[first + i - 1], uuid |-> first + i - 1]]

\* Mutant of FindHook: only the first hook of the page is compared.
FindHookFirstOnly(values, url) ==
    IF Len(values) >= 1 /\ values[1].url = url THEN values[1] ELSE Undefined

\* hooks.values.find(webhook => webhook.url === config.url)
FindHook(values, url) ==
    IF \A i \in 1..Len(values) : values[i].url # url
    THEN Undefined
    ELSE values[CHOOSE i \in 1..Len(values) :
                    values[i].url = url /\ \A j \in 1..(i - 1) : values[j].url # url]

\* _findWebhook's request
FindWebhookParams(tok, repoId, page) ==
    [json |-> TRUE,
     method |-> "GET",
     auth |-> [bearer |-> tok],
     url |-> <<API_URL_V2, "/repositories/">> \o repoId
             \o <<"/hooks?pagelen=30&page=", page>>]

\* Mutant of CreateWebhookParams: an existing hook is not looked at, the
\* hook is always created.
CreateWebhookParamsAlwaysPost(cfg) ==
    [body |-> [description |-> "Screwdriver-CD build trigger",
               url |-> cfg.url,
               active |-> TRUE,
               events |-> IF Len(cfg.actions) = 0
                          THEN <<<<"repo", ":", "push">>,
                                 <<"pullrequest", ":", "created">>,
                                 <<"pullrequest", ":", "fulfilled">>,
                                 <<"pullrequest", ":", "rejected">>,
                                 <<"pullrequest", ":", "updated">>>>
                          ELSE cfg.actions],
     json |-> TRUE,
     method |-> "POST",
     auth |-> [bearer |-> cfg.token],
     url |-> <<API_URL_V2, "/repositories/">> \o cfg.repoId \o <<"/hooks">>]

\* _createWebhook's request
CreateWebhookParams(cfg) ==
    [body |-> [description |-> "Screwdriver-CD build trigger",
               url |-> cfg.url,
               active |-> TRUE,
               events |-> IF Len(cfg.actions) = 0
                          THEN <<<<"repo", ":", "push">>,
                                 <<"pullrequest", ":", "created">>,
                                 <<"pullrequest", ":", "fulfilled">>,
                                 <<"pullrequest", ":", "rejected">>,
                                 <<"pullrequest", ":", "updated">>>>
                          ELSE cfg.actions],
     json |-> TRUE,
     method |-> IF cfg.hookInfo # Undefined THEN "PUT" ELSE "POST",
     auth |-> [bearer |-> cfg.token],
     url |-> <<API_URL_V2, "/repositories/">> \o cfg.repoId \o <<"/hooks">>
             \o (IF cfg.hookInfo # Undefined THEN <<"/", cfg.hookInfo.uuid>> ELSE <<>>)]

Answer(status) == [statusCode |-> status]      \* an answer of the provider
TransportError == [transport |-> TRUE]         \* what the executor rejects with
TokenError == [refresh |-> TRUE]               \* what _refreshToken throws

RegInFlight(rec) == rec.pc \in {"refreshing", "finding", "writing", "posting"}

\* _addWebhook's promise settles; nothing of the call stays in flight.
SettleReg(pc, err, status) ==
    [IdleReg EXCEPT !.pc = pc, !.error = err, !.last = status]

\* _findWebhook sends its GET with the token _getToken returned.
SendFind(rec, tok) ==
    [rec EXCEPT !.pc = "finding", !.gets = @ + 1, !.params = None,
                !.req = FindWebhookParams(tok,
                            GetScmUriParts(AddWebhookConfig.scmUri).repoId, rec.page)]

\* _findWebhook({page, ...}) up to its first wait on the network: `await
\* this._getToken()` either sends _refreshToken's request or returns the
\* stored token, and then the GET of the page goes out.
FindWebhook(c, rec, page) ==
    /\ regs' = [regs EXCEPT ![c] =
        IF NeedsRefresh(expiresIn, now)
        THEN [rec EXCEPT !.pc = "refreshing", !.page = page, !.req = None,
                         !.params = RefreshParams(token, refreshToken)]
        ELSE SendFind([rec EXCEPT !.page = page], token)]
    /\ UNCHANGED <<tokenVars, issued, lastIssued>>

\* The caller invokes _addWebhook on slot c.
AddWebhook(c, actions) ==
    /\ ~RegInFlight(regs[c])
    /\ FindWebhook(c, [IdleReg EXCEPT !.actions = actions], 1)
    /\ UNCHANGED <<now, calls, hookVars, opVars, repoHooks>>

\* The token endpoint answers 200 to the refresh of slot c's _findWebhook.
RegTokenResponseOK(c, secs) ==
    /\ regs[c].pc = "refreshing"
    /\ issued < MaxIssued
    /\ LET body == TokenBody(issued + 1, secs) IN
        /\ StoreToken(body, now)
        /\ lastIssued' = [body |-> body, at |-> now]
    /\ issued' = issued + 1
    /\ regs' = [regs EXCEPT ![c] = SendFind(regs[c], token')]
    /\ UNCHANGED <<now, calls, hookVars, opVars, repoHooks>>

\* The refresh of slot c's _findWebhook fails: _addWebhook rejects.
RegTokenResponseFail(c, kind) ==
    /\ regs[c].pc = "refreshing"
    /\ kind \in TokenFailures
    /\ regs' = [regs EXCEPT ![c] = SettleReg("rejected", TokenError, None)]
    /\ UNCHANGED <<tokenVars, now, calls, issued, lastIssued, hookVars, opVars, repoHooks>>

\* `.then(hookInfo => this._createWebhook({hookInfo, ...}))`
CreateWebhook(c, rec, hookInfo) ==
    regs' = [regs EXCEPT ![c] =
        [rec EXCEPT !.pc = "writing", !.page = 0, !.gets = 0,
                    !.req = CreateWebhookParams(
                        [hookInfo |-> hookInfo,
                         repoId |-> GetScmUriParts(AddWebhookConfig.scmUri).repoId,
                         actions |-> rec.actions,
                         token |-> AddWebhookConfig.token,
                         url |-> AddWebhookConfig.webhookUrl])]]

\* Mutant of HookPageResponse: a failed page counts as a page without the
\* hook, and the hook is created.
HookPageResponseErrorIgnored(c, status, total) ==
    /\ regs[c].pc = "finding"
    /\ LET rec == regs[c]
           values == HooksPage(repoHooks, rec.page)
           size == IF total THEN Len(repoHooks) ELSE Len(values)
           err == CheckResponseError([statusCode |-> status, body |-> Undefined])
           result == FindHook(values, AddWebhookConfig.webhookUrl)
       IN  IF err # None
           THEN /\ total = FALSE
                /\ CreateWebhook(c, [rec EXCEPT !.last = Answer(status)], Undefined)
                /\ UNCHANGED <<tokenVars, issued, lastIssued>>
           ELSE IF result = Undefined /\ size >= WEBHOOK_PAGE_SIZE
           THEN /\ rec.page < MaxPages
                /\ FindWebhook(c, [rec EXCEPT !.last = Answer(status)], rec.page + 1)
           ELSE /\ CreateWebhook(c, [rec EXCEPT !.last = Answer(status)], result)
                /\ UNCHANGED <<tokenVars, issued, lastIssued>>
    /\ UNCHANGED <<now, calls, hookVars, opVars, repoHooks>>

\* The provider answers the GET of a hook page of slot c.  body.values holds
\* the hooks of the page; body.size is what the provider reports there: the
\* number of hooks of the page, or (total) of the whole collection.
HookPageResponse(c, status, total) ==
    /\ regs[c].pc = "finding"
    /\ LET rec == regs[c]
           values == HooksPage(repoHooks, rec.page)
           size == IF total THEN Len(repoHooks) ELSE Len(values)
           err == CheckResponseError([statusCode |-> status, body |-> Undefined])
           result == FindHook(values, AddWebhookConfig.webhookUrl)
       IN  IF err # None
           THEN /\ total = FALSE
                /\ regs' = [regs EXCEPT ![c] =
                        [SettleReg("rejected", err, Answer(status)) EXCEPT !.page = rec.page]]
                /\ UNCHANGED <<tokenVars, issued, lastIssued>>
           ELSE IF result = Undefined /\ size >= WEBHOOK_PAGE_SIZE
           THEN /\ rec.page < MaxPages
                /\ FindWebhook(c, [rec EXCEPT !.last = Answer(status)], rec.page + 1)
           ELSE /\ CreateWebhook(c, [rec EXCEPT !.last = Answer(status)], result)
                /\ UNCHANGED <<tokenVars, issued, lastIssued>>
    /\ UNCHANGED <<now, calls, hookVars, opVars, repoHooks>>

\* The executor rejects the request in flight of slot c (a transport error).
RegReject(c) ==
    /\ regs[c].pc \in {"finding", "writing"}
    /\ regs' = [regs EXCEPT ![c] = SettleReg("rejected", TransportError, TransportError)]
    /\ UNCHANGED <<tokenVars, now, calls, issued, lastIssued, hookVars, opVars, repoHooks>>

\* Mutant of HookWriteResponse: the provider creates no second hook of a url
\* it already holds.
HookWriteResponseDedup(c, status) ==
    /\ regs[c].pc = "writing"
    /\ LET req == regs[c].req
           err == CheckResponseError([statusCode |-> status, body |-> Undefined])
       IN  IF err # None
           THEN /\ regs' = [regs EXCEPT ![c] = SettleReg("rejected", err, Answer(status))]
                /\ UNCHANGED repoHooks
           ELSE /\ regs' = [regs EXCEPT ![c] = SettleReg("resolved", None, Answer(status))]
                /\ repoHooks' =
                    IF req.method = "POST"
                    THEN IF \E i \in 1..Len(repoHooks) : repoHooks[i] = req.body.url
                         THEN repoHooks
                         ELSE Append(repoHooks, req.body.url)
                    ELSE [repoHooks EXCEPT ![req.url[Len(req.url)]] = req.body.url]
    /\ UNCHANGED <<tokenVars, now, calls, issued, lastIssued, hookVars, opVars>>

\* The provider answers the POST or PUT of slot c: on 2xx it has created the
\* hook, or replaced the one of the uuid, and the call resolves.
HookWriteResponse(c, status) ==
    /\ regs[c].pc = "writing"
    /\ LET req == regs[c].req
           err == CheckResponseError([statusCode |-> status, body |-> Undefined])
       IN  IF err # None
           THEN /\ regs' = [regs EXCEPT ![c] = SettleReg("rejected", err, Answer(status))]
                /\ UNCHANGED repoHooks
           ELSE /\ regs' = [regs EXCEPT ![c] = SettleReg("resolved", None, Answer(status))]
                /\ repoHooks' =
                    IF req.method = "POST"
                    THEN Append(repoHooks, req.body.url)
                    ELSE [repoHooks EXCEPT ![req.url[Len(req.url)]] = req.body.url]
    /\ UNCHANGED <<tokenVars, now, calls, issued, lastIssued, hookVars, opVars>>

PageStatuses == {200, 403}
WriteStatuses == {201, 403}

\* The adapter after its constructor, and a repository with some hooks.
InitReg ==
    /\ token = EMPTY
    /\ refreshToken = EMPTY
    /\ expiresIn = 0
    /\ now \in {s * d : s \in StartTicks, d \in ClockSteps}
    /\ calls = [c \in Calls |-> IdleCall]
    /\ issued = 0
    /\ lastIssued = NoBody
    /\ hookHeaders = NoHook
    /\ hookPayload = NoHook
    /\ hookResult = NoHook
    /\ canResult = NoHook
    /\ IdleOps
    /\ repoHooks \in InitialHooks
    /\ regs = [c \in Calls |-> IdleReg]

\* Overlapping _addWebhook calls.  The clock stands still here: every call
\* that starts before the first token is stored refreshes, the others find
\* the token fresh.
NextReg ==
    \/ \E c \in Calls, actions \in HookActions : AddWebhook(c, actions)
    \/ \E c \in Calls, secs \in ExpiresInChoices : RegTokenResponseOK(c, secs)
    \/ \E c \in Calls, kind \in TokenFailures : RegTokenResponseFail(c, kind)
    \/ \E c \in Calls, status \in PageStatuses, total \in BOOLEAN :
            HookPageResponse(c, status, total)
    \/ \E c \in Calls, status \in WriteStatuses : HookWriteResponse(c, status)
    \/ \E c \in Calls : RegReject(c)

SpecReg == InitReg /\ [][NextReg]_vars

\* The registrar under a caller that never overlaps two calls, with the clock
\* advancing (the token can fall due between two pages of a search).
AddWebhookAlone(c, actions) ==
    /\ \A d \in Calls : ~RegInFlight(regs[d])
    /\ AddWebhook(c, actions)

NextRegSeq ==
    \/ \E c \in Calls, actions \in HookActions : AddWebhookAlone(c, actions)
    \/ \E c \in Calls, secs \in ExpiresInChoices : RegTokenResponseOK(c, secs)
    \/ \E c \in Calls, kind \in TokenFailures : RegTokenResponseFail(c, kind)
    \/ \E c \in Calls, status \in PageStatuses, total \in BOOLEAN :
            HookPageResponse(c, status, total)
    \/ \E c \in Calls, status \in WriteStatuses : HookWriteResponse(c, status)
    \/ \E c \in Calls : RegReject(c)
    \/ \E d \in ClockSteps : Tick(d)

SpecRegSeq == InitReg /\ [][NextRegSeq]_vars

----------------------------------------------------------------------------
(* parseUrl: from a checkout URL to an SCM URI *)

\* `${API_URL_V2}/repositories`
REPO_URL == <<API_URL_V2, "/repositories">>

Rejected(e) == [k |-> "rejected", e |-> e]     \* the promise rejects with e
ErrorOf(message) == [message |-> message]      \* new Error(message)
TypeError == [typeError |-> TRUE]              \* a property of undefined is read

\* The checkout URLs considered, by the parts they are written from: the ssh
\* and the https form, on the adapter's host and on another, without and with
\* a #branch.
UrlSchemes == {"ssh", "https"}
UrlHosts == {"bitbucket.org", "bitbucket.corp.jp"}
UrlBranches == {<<>>, <<"master">>, <<"mynewbranch">>}
CheckoutUrlParts ==
    [scheme : UrlSchemes, host : UrlHosts, owner : {"batman"}, repo : {"test"},
     branch : UrlBranches]
CheckoutUrlOf(p) ==
    (IF p.scheme = "ssh" THEN <<"git@", p.host, ":">>
                         ELSE <<"https://", "batman@", p.host, "/">>)
    \o <<p.owner, "/", p.repo, ".git">>
    \o (IF p.branch = <<>> THEN <<>> ELSE <<"#">> \o p.branch)

\* getRepoInfo(checkoutUrl): the groups the checkout-URL expression captures
\* (host, user, repo and '#branch'), the branch without its '#'.
GetRepoInfo(checkoutUrl) ==
    LET afterScheme == Tail(checkoutUrl)
        rest == IF Head(checkoutUrl) = "https://" /\ Head(afterScheme) \in {"batman@"}
                THEN Tail(afterScheme) ELSE afterScheme
        matchedBranch == IF Len(rest) > 6 THEN Str(SubSeq(rest, 7, Len(rest)))
                                          ELSE Undefined
    IN [hostname |-> rest[1],
        repo |-> rest[5],
        branch |-> IF matchedBranch # Undefined
                   THEN Str(Tail(matchedBranch.s)) ELSE Null,
        username |-> rest[3]]

\* The answers of the provider to the branch request.
UrlStatuses == {200, 404, 500}
UrlBodies ==
    {Obj([target |-> Obj([repository |-> Obj([uuid |-> Str(<<u>>)])])]) :
        u \in {"{de7d7695}", "{a1b2c3d4}"}}
    \cup {Obj(EmptyObj)}

UrlInFlight == urlCall.pc \in {"refreshing", "requesting"}

\* Mutant of UrlAfterToken: no '#branch' leaves the branch of the SCM URI empty.
UrlAfterTokenNoDefault(rec, tok) ==
    LET repoInfo == GetRepoInfo(rec.checkoutUrl)
        branch == IF repoInfo.branch # Null THEN repoInfo.branch.s ELSE <<>>
        options == [url |-> REPO_URL \o <<"/", repoInfo.username, "/", repoInfo.repo,
                                         "/refs/branches/">> \o branch,
                    method |-> "GET",
                    json |-> TRUE,
                    auth |-> [bearer |-> tok]]
    IN  IF repoInfo.hostname # hostname
        THEN [rec EXCEPT !.pc = "rejected", !.params = None,
                !.result = Rejected(ErrorOf(
                    <<"This checkoutUrl is not supported for your current login host.">>))]
        ELSE [rec EXCEPT !.pc = "requesting", !.params = None, !.req = options,
                         !.branch = branch, !.sent = @ + 1]

\* _parseUrl from the return of `await this._getToken()` to its next wait: the
\* host test, and the branch request.
UrlAfterToken(rec, tok) ==
    LET repoInfo == GetRepoInfo(rec.checkoutUrl)
        branch == IF repoInfo.branch # Null /\ repoInfo.branch.s # <<>>
                  THEN repoInfo.branch.s ELSE <<"master">>
        options == [url |-> REPO_URL \o <<"/", repoInfo.username, "/", repoInfo.repo,
                                         "/refs/branches/">> \o branch,
                    method |-> "GET",
                    json |-> TRUE,
                    auth |-> [bearer |-> tok]]
    IN  IF repoInfo.hostname # hostname
        THEN [rec EXCEPT !.pc = "rejected", !.params = None,
                !.result = Rejected(ErrorOf(
                    <<"This checkoutUrl is not supported for your current login host.">>))]
        ELSE [rec EXCEPT !.pc = "requesting", !.params = None, !.req = options,
                         !.branch = branch, !.sent = @ + 1]

\* _parseUrl(config) up to its first wait on the network: `await
\* this._getToken()` either sends _refreshToken's request or returns the stored
\* token.
ParseUrl(p) ==
    /\ ~UrlInFlight
    /\ LET rec == [IdleUrl EXCEPT !.checkoutUrl = CheckoutUrlOf(p), !.parts = p] IN
        urlCall' = IF NeedsRefresh(expiresIn, now)
                   THEN [rec EXCEPT !.pc = "refreshing",
                                    !.params = RefreshParams(token, refreshToken),
                                    !.sent = @ + 1]
                   ELSE UrlAfterToken(rec, token)
    /\ UNCHANGED <<tokenVars, now, calls, issued, lastIssued, hookVars, regVars,
                   permCall, checked>>

\* The token endpoint answers 200 to _parseUrl's refresh.
UrlTokenResponseOK(secs) ==
    /\ urlCall.pc = "refreshing"
    /\ issued < MaxIssued
    /\ LET body == TokenBody(issued + 1, secs) IN
        /\ StoreToken(body, now)
        /\ lastIssued' = [body |-> body, at |-> now]
    /\ issued' = issued + 1
    /\ urlCall' = UrlAfterToken(urlCall, token')
    /\ UNCHANGED <<now, calls, hookVars, regVars, permCall, checked>>

\* _parseUrl's refresh fails: _refreshToken throws and so does _parseUrl.
UrlTokenResponseFail(kind) ==
    /\ urlCall.pc = "refreshing"
    /\ kind \in TokenFailures
    /\ urlCall' = [urlCall EXCEPT !.pc = "rejected", !.params = None,
                                  !.result = Rejected(TokenError)]
    /\ UNCHANGED <<tokenVars, now, calls, issued, lastIssued, hookVars, regVars,
                   permCall, checked>>

\* The provider answers the branch request.
UrlBranchResponse(status, body) ==
    /\ urlCall.pc = "requesting"
    /\ LET repoInfo == GetRepoInfo(urlCall.checkoutUrl)
           repository == Reach(body, <<"target", "repository">>)
           settled == [urlCall EXCEPT !.req = None, !.body = body]
       IN urlCall' =
            IF status = 404
            THEN [settled EXCEPT !.pc = "rejected",
                    !.result = Rejected(ErrorOf(<<"Cannot find repository ">>
                                                \o urlCall.checkoutUrl))]
            ELSE IF status # 200
            THEN [settled EXCEPT !.pc = "rejected",
                    !.result = Rejected(ErrorOf(<<"STATUS CODE ", ToString(status), ": ">>
                                                \o TemplateString(JsonStringify(body))))]
            ELSE IF repository.t # "object"
            THEN [settled EXCEPT !.pc = "rejected", !.result = Rejected(TypeError)]
            ELSE [settled EXCEPT !.pc = "resolved",
                    !.result = Resolved(<<repoInfo.hostname, ":", repoInfo.username, "/">>
                                        \o TemplateString(Prop(repository, "uuid"))
                                        \o <<":">> \o urlCall.branch)]
    /\ UNCHANGED <<tokenVars, now, calls, issued, lastIssued, hookVars, regVars,
                   permCall, checked>>

\* The executor rejects the branch request.
UrlReject ==
    /\ urlCall.pc = "requesting"
    /\ urlCall' = [urlCall EXCEPT !.pc = "rejected", !.req = None,
                                  !.result = Rejected(TransportError)]
    /\ UNCHANGED <<tokenVars, now, calls, issued, lastIssued, hookVars, regVars,
                   permCall, checked>>

NextUrl ==
    \/ \E p \in CheckoutUrlParts : ParseUrl(p)
    \/ \E secs \in ExpiresInChoices : UrlTokenResponseOK(secs)
    \/ \E kind \in TokenFailures : UrlTokenResponseFail(kind)
    \/ \E status \in UrlStatuses, body \in UrlBodies : UrlBranchResponse(status, body)
    \/ UrlReject
    \/ \E d \in ClockSteps : Tick(d)

SpecUrl == Init /\ [][NextUrl]_vars

----------------------------------------------------------------------------
(* updateCommitStatus, next to the registrar *)

STATE_MAP ==
    [SUCCESS |-> "SUCCESSFUL", RUNNING |-> "INPROGRESS", QUEUED |-> "INPROGRESS",
     FAILURE |-> "FAILED", ABORTED |-> "STOPPED"]

\* decodeURIComponent(text): every escape chunk becomes the character it stands for
DecodeChunk(ch) ==
    CASE ch = "%3D" -> "="
      [] ch = "%2F" -> "/"
      [] ch = "%2B" -> "+"
      [] OTHER -> ch
DecodeURIComponent(text) == [i \in 1..Len(text) |-> DecodeChunk(text[i])]

\* The configs of the _updateCommitStatus calls considered.
StatusConfigs ==
    [scmUri : {<<"hostName", ":", "repoId", ":", "branchName">>},
     sha : {"1111111111111111111111111111111111111111"},
     buildStatus : {"SUCCESS", "FAILURE"},
     token : {<<"bearerToken">>, <<"bearer", "%3D", "Token">>},
     url : {"http://valid.url"},
     jobName : {<<"main">>, <<"PR", "-1">>},
     pipelineId : {123}]
StatusStatuses == {200, 201, 401}

\* Mutant of UpdateCommitStatusParams: the request carries the stored token.
UpdateCommitStatusParamsStored(cfg) ==
    LET scm == GetScmUriParts(cfg.scmUri)
        context == <<"Screwdriver/", ToString(cfg.pipelineId), "/">>
                   \o (IF StartsWith(cfg.jobName, <<"PR">>) THEN <<"PR">> ELSE cfg.jobName)
    IN [url |-> REPO_URL \o <<"/">> \o scm.repoId
                \o <<"/commit/", cfg.sha, "/statuses/build">>,
        method |-> "POST",
        json |-> TRUE,
        body |-> [url |-> cfg.url,
                  state |-> STATE_MAP[cfg.buildStatus],
                  key |-> cfg.sha,
                  description |-> context],
        auth |-> [bearer |-> token]]

\* The options of _updateCommitStatus's request.
UpdateCommitStatusParams(cfg) ==
    LET scm == GetScmUriParts(cfg.scmUri)
        context == <<"Screwdriver/", ToString(cfg.pipelineId), "/">>
                   \o (IF StartsWith(cfg.jobName, <<"PR">>) THEN <<"PR">> ELSE cfg.jobName)
    IN [url |-> REPO_URL \o <<"/">> \o scm.repoId
                \o <<"/commit/", cfg.sha, "/statuses/build">>,
        method |-> "POST",
        json |-> TRUE,
        body |-> [url |-> cfg.url,
                  state |-> STATE_MAP[cfg.buildStatus],
                  key |-> cfg.sha,
                  description |-> context],
        auth |-> [bearer |-> DecodeURIComponent(cfg.token)]]

\* _updateCommitStatus(config) up to its request, by a caller with no other
\* call in progress.
UpdateCommitStatus(c, cfg) ==
    /\ \A d \in Calls : ~RegInFlight(regs[d])
    /\ regs' = [regs EXCEPT ![c] =
                    [IdleReg EXCEPT !.pc = "posting",
                                    !.req = UpdateCommitStatusParams(cfg)]]
    /\ UNCHANGED <<tokenVars, now, calls, issued, lastIssued, hookVars, opVars,
                   repoHooks>>

\* The provider answers the POST of the status.
CommitStatusResponse(c, status) ==
    /\ regs[c].pc = "posting"
    /\ regs' = [regs EXCEPT ![c] =
            IF status # 201 /\ status # 200
            THEN SettleReg("rejected",
                    ErrorOf(<<"STATUS CODE ", ToString(status), ": ">>
                            \o TemplateString(JsonStringify(Undefined))),
                    Answer(status))
            ELSE SettleReg("resolved", None, Answer(status))]
    /\ UNCHANGED <<tokenVars, now, calls, issued, lastIssued, hookVars, opVars,
                   repoHooks>>

\* The executor rejects the POST of the status.
CommitStatusReject(c) ==
    /\ regs[c].pc = "posting"
    /\ regs' = [regs EXCEPT ![c] = SettleReg("rejected", TransportError, TransportError)]
    /\ UNCHANGED <<tokenVars, now, calls, issued, lastIssued, hookVars, opVars,
                   repoHooks>>

\* The slot of a caller that never overlaps two calls.
WriteSlots == {1}

\* The writes of the adapter (the hook's POST or PUT, the status's POST) and
\* the reads that go with them, under a caller that never overlaps two calls.
NextWrite ==
    \/ \E c \in WriteSlots, actions \in HookActions : AddWebhookAlone(c, actions)
    \/ \E c \in WriteSlots, secs \in ExpiresInChoices : RegTokenResponseOK(c, secs)
    \/ \E c \in WriteSlots, kind \in TokenFailures : RegTokenResponseFail(c, kind)
    \/ \E c \in WriteSlots, status \in PageStatuses, total \in BOOLEAN :
            HookPageResponse(c, status, total)
    \/ \E c \in WriteSlots, status \in WriteStatuses : HookWriteResponse(c, status)
    \/ \E c \in WriteSlots : RegReject(c)
    \/ \E c \in WriteSlots, cfg \in StatusConfigs : UpdateCommitStatus(c, cfg)
    \/ \E c \in WriteSlots, status \in StatusStatuses : CommitStatusResponse(c, status)
    \/ \E c \in WriteSlots : CommitStatusReject(c)
    \/ \E d \in ClockSteps : Tick(d)

SpecWrite == InitReg /\ [][NextWrite]_vars

----------------------------------------------------------------------------
(* getPermissions: the existence request and the three probes *)

\* The config of the _getPermissions calls considered.
PermConfig ==
    [scmUri |-> <<"hostName", ":", "repoIdPrefix", "/", "repoIdSuffix1", ":", "branchName">>,
     token |-> "oauthToken"]
PermOwner == Split(GetScmUriParts(PermConfig.scmUri).repoId, "/")[1]
PermUuid == Split(GetScmUriParts(PermConfig.scmUri).repoId, "/")[2]

\* The answers of the provider to the existence request and to a probe.
ExistsStatuses == {200, 201, 404}
ProbeStatuses == {200, 404}
ProbeBodies ==
    {Obj([values |-> Arr(<<Obj([uuid |-> Str(<<"repoIdSuffix1">>)])>>)]),
     Obj([values |-> Arr(<<Obj([uuid |-> Str(<<"repoIdSuffix2">>)])>>)]),
     Obj(EmptyObj)}

\* The options of the existence request.
ExistsParams(tok) ==
    [url |-> <<API_URL_V2, "/repositories/">> \o PermOwner \o <<"/">> \o PermUuid,
     method |-> "GET",
     json |-> TRUE,
     auth |-> [bearer |-> tok]]

\* Mutant of GetPermParams: the contributor filter goes to the pull probe.
GetPermParamsShifted(desiredAccess, tok) ==
    LET url == <<API_URL_V2, "/repositories/">> \o PermOwner
               \o <<"?q=uuid%3D%22">> \o PermUuid \o <<"%22">>
    IN [url |-> IF desiredAccess = "admin" THEN url \o <<"&role=admin">>
                ELSE IF desiredAccess = "pull" THEN url \o <<"&role=contributor">>
                ELSE url,
        method |-> "GET",
        json |-> TRUE,
        auth |-> [bearer |-> tok]]

\* The options of getPerm(desiredAccess).
GetPermParams(desiredAccess, tok) ==
    LET url == <<API_URL_V2, "/repositories/">> \o PermOwner
               \o <<"?q=uuid%3D%22">> \o PermUuid \o <<"%22">>
    IN [url |-> IF desiredAccess = "admin" THEN url \o <<"&role=admin">>
                ELSE IF desiredAccess = "push" THEN url \o <<"&role=contributor">>
                ELSE url,
        method |-> "GET",
        json |-> TRUE,
        auth |-> [bearer |-> tok]]

\* getPerm(desiredAccess) up to its request.
GetPerm(desiredAccess, tok) ==
    [st |-> "sent",         \* sent, fulfilled, rejected
     req |-> GetPermParams(desiredAccess, tok),
     body |-> None,         \* history: the body of the answer
     value |-> None]        \* what the promise of getPerm settled with

\* response.body.values ? response.body.values.some(r => r.uuid === uuid) : false
HasUuid(body) ==
    LET values == Prop(body, "values")
    IN IF values.t = "array"
       THEN \E i \in 1..Len(values.e) : Prop(values.e[i], "uuid") = Str(PermUuid)
       ELSE FALSE

\* Mutant of AllSettled: the permission object is resolved from the first
\* fulfilled probe on, the probes still in flight counted as false.
AllSettledEarly(rec, probes) ==
    IF rec.pc # "probing" THEN [rec EXCEPT !.probes = probes]
    ELSE IF \E i \in 1..Len(probes) : probes[i].st = "rejected"
    THEN LET i == CHOOSE j \in 1..Len(probes) : probes[j].st = "rejected"
         IN [rec EXCEPT !.probes = probes, !.pc = "rejected",
                        !.result = Rejected(probes[i].value)]
    ELSE [rec EXCEPT !.probes = probes, !.pc = "resolved",
            !.result = Resolved([admin |-> probes[1].value = Bool(TRUE),
                                 push |-> probes[2].value = Bool(TRUE),
                                 pull |-> probes[3].value = Bool(TRUE)])]

\* Promise.all([getPerm('admin'), getPerm('push'), getPerm('pull')]).then(...)
\* after one of the three settled: it rejects with the first rejection, and
\* resolves to {admin, push, pull} once the three are fulfilled.
AllSettled(rec, probes) ==
    IF rec.pc # "probing" THEN [rec EXCEPT !.probes = probes]
    ELSE IF \E i \in 1..Len(probes) : probes[i].st = "rejected"
    THEN LET i == CHOOSE j \in 1..Len(probes) : probes[j].st = "rejected"
         IN [rec EXCEPT !.probes = probes, !.pc = "rejected",
                        !.result = Rejected(probes[i].value)]
    ELSE IF \A i \in 1..Len(probes) : probes[i].st = "fulfilled"
    THEN [rec EXCEPT !.probes = probes, !.pc = "resolved",
            !.result = Resolved([admin |-> probes[1].value.b,
                                 push |-> probes[2].value.b,
                                 pull |-> probes[3].value.b])]
    ELSE [rec EXCEPT !.probes = probes]

PermBusy ==
    \/ permCall.pc \in {"refreshing", "existence", "probing"}
    \/ \E i \in 1..Len(permCall.probes) : permCall.probes[i].st = "sent"

\* _getPermissions sends the existence request with the token _getToken returned.
SendExists(rec, tok) ==
    [rec EXCEPT !.pc = "existence", !.params = None, !.req = ExistsParams(tok)]

\* _getPermissions(config) up to its first wait on the network.
GetPermissions ==
    /\ ~PermBusy
    /\ permCall' = IF NeedsRefresh(expiresIn, now)
                   THEN [IdlePerm EXCEPT !.pc = "refreshing",
                                         !.params = RefreshParams(token, refreshToken)]
                   ELSE SendExists(IdlePerm, token)
    /\ UNCHANGED <<tokenVars, now, calls, issued, lastIssued, hookVars, regVars,
                   urlCall, checked>>

\* The token endpoint answers 200 to _getPermissions' refresh.
PermTokenResponseOK(secs) ==
    /\ permCall.pc = "refreshing"
    /\ issued < MaxIssued
    /\ LET body == TokenBody(issued + 1, secs) IN
        /\ StoreToken(body, now)
        /\ lastIssued' = [body |-> body, at |-> now]
    /\ issued' = issued + 1
    /\ permCall' = SendExists(permCall, token')
    /\ UNCHANGED <<now, calls, hookVars, regVars, urlCall, checked>>

\* _getPermissions' refresh fails.
PermTokenResponseFail(kind) ==
    /\ permCall.pc = "refreshing"
    /\ kind \in TokenFailures
    /\ permCall' = [permCall EXCEPT !.pc = "rejected", !.params = None,
                                    !.result = Rejected(TokenError)]
    /\ UNCHANGED <<tokenVars, now, calls, issued, lastIssued, hookVars, regVars,
                   urlCall, checked>>

\* The provider answers the existence request: checkResponseError throws, or
\* the three getPerm calls send their requests in one turn.
PermExistsResponse(status) ==
    /\ permCall.pc = "existence"
    /\ LET response == [statusCode |-> status, body |-> Undefined]
           err == CheckResponseError(response)
           tok == permCall.req.auth.bearer
           rec == [permCall EXCEPT !.req = None, !.exists = response]
       IN permCall' =
            IF err # None
            THEN [rec EXCEPT !.pc = "rejected", !.result = Rejected(err)]
            ELSE [rec EXCEPT !.pc = "probing",
                    !.probes = <<GetPerm("admin", tok), GetPerm("push", tok),
                                 GetPerm("pull", tok)>>]
    /\ UNCHANGED <<tokenVars, now, calls, issued, lastIssued, hookVars, regVars,
                   urlCall, checked>>

\* The executor rejects the existence request.
PermExistsReject ==
    /\ permCall.pc = "existence"
    /\ permCall' = [permCall EXCEPT !.pc = "rejected", !.req = None,
                                    !.exists = TransportError,
                                    !.result = Rejected(TransportError)]
    /\ UNCHANGED <<tokenVars, now, calls, issued, lastIssued, hookVars, regVars,
                   urlCall, checked>>

\* The provider answers the i-th probe.
ProbeResponse(i, status, body) ==
    /\ i \in 1..Len(permCall.probes)
    /\ permCall.probes[i].st = "sent"
    /\ LET probe == permCall.probes[i]
           settled ==
                IF status # 200
                THEN [probe EXCEPT !.st = "rejected", !.body = body,
                        !.value = ErrorOf(<<"STATUS CODE ", ToString(status), ": ">>
                                          \o TemplateString(JsonStringify(body)))]
                ELSE [probe EXCEPT !.st = "fulfilled", !.body = body,
                        !.value = Bool(HasUuid(body))]
       IN permCall' = AllSettled(permCall, [permCall.probes EXCEPT ![i] = settled])
    /\ UNCHANGED <<tokenVars, now, calls, issued, lastIssued, hookVars, regVars,
                   urlCall, checked>>

\* The executor rejects the i-th probe.
ProbeReject(i) ==
    /\ i \in 1..Len(permCall.probes)
    /\ permCall.probes[i].st = "sent"
    /\ LET settled == [permCall.probes[i] EXCEPT !.st = "rejected",
                                                 !.value = TransportError]
       IN permCall' = AllSettled(permCall, [permCall.probes EXCEPT ![i] = settled])
    /\ UNCHANGED <<tokenVars, now, calls, issued, lastIssued, hookVars, regVars,
                   urlCall, checked>>

Probes == 1..3

NextPerm ==
    \/ GetPermissions
    \/ \E secs \in ExpiresInChoices : PermTokenResponseOK(secs)
    \/ \E kind \in TokenFailures : PermTokenResponseFail(kind)
    \/ \E status \in ExistsStatuses : PermExistsResponse(status)
    \/ PermExistsReject
    \/ \E i \in Probes, status \in ProbeStatuses, body \in ProbeBodies :
            ProbeResponse(i, status, body)
    \/ \E i \in Probes : ProbeReject(i)

SpecPerm == Init /\ [][NextPerm]_vars

----------------------------------------------------------------------------
(* checkResponseError on its own *)

\* The responses considered: status codes on both sides of 200 and of 300,
\* and bodies with and without error.message and error.detail.required.
CheckedStatuses == {199, 200, 201, 204, 299, 300, 301, 400, 401, 403, 404, 500, 503}
ScopeMessage == <<"Your credentials lack one or more required privilege scopes.">>
CheckedBodies ==
    {Undefined,
     Null,
     Str(<<"Bad Gateway">>),
     Obj(EmptyObj),
     Obj([type |-> Str(<<"error">>),
          error |-> Obj([message |-> Str(ScopeMessage),
                         detail |-> Obj([granted |-> Arr(<<Str(<<"repository">>)>>),
                                         required |-> Arr(<<Str(<<"webhook">>)>>)])])]),
     Obj([error |-> Obj([detail |-> Obj([required |->
            Arr(<<Str(<<"webhook">>), Str(<<"pullrequest">>)>>)])])]),
     Obj([error |-> Obj([message |-> Str(<<"Not Found">>)])]),
     Obj([error |-> Null])}
CheckedResponses == [statusCode : CheckedStatuses, body : CheckedBodies]

\* checkResponseError(response) is called.
CheckResponseErrorCall ==
    /\ checked.outcome = None
    /\ checked' = [checked EXCEPT !.outcome =
                    LET err == CheckResponseError(checked.response)
                    IN IF err = None THEN Resolved(Undefined) ELSE Thrown(err)]
    /\ UNCHANGED <<tokenVars, now, calls, issued, lastIssued, hookVars, regVars,
                   urlCall, permCall>>

\* The adapter after its constructor, and one response about to be checked.
InitCheck ==
    /\ token = EMPTY
    /\ refreshToken = EMPTY
    /\ expiresIn = 0
    /\ now \in {s * d : s \in StartTicks, d \in ClockSteps}
    /\ calls = [c \in Calls |-> IdleCall]
    /\ issued = 0
    /\ lastIssued = NoBody
    /\ hookHeaders = NoHook
    /\ hookPayload = NoHook
    /\ hookResult = NoHook
    /\ canResult = NoHook
    /\ repoHooks = <<>>
    /\ regs = [c \in Calls |-> IdleReg]
    /\ urlCall = IdleUrl
    /\ permCall = IdlePerm
    /\ checked \in [response : CheckedResponses, outcome : {None}]

NextCheck == CheckResponseErrorCall

SpecCheck == InitCheck /\ [][NextCheck]_vars

\* The error checkResponseError throws for a status with no body.
UnavailableError(status) ==
    [code |-> status,
     message |-> <<"SCM service unavailable (", ToString(status), ").",
                   " Reason \"", "undefined", "\"">>]

----------------------------------------------------------------------------
(* Properties of the token manager *)

\* The specification's staleness: no token yet, or within the margin of expiry.
Stale(tok, exp, t) == tok = EMPTY \/ t >= exp - TokenBuffer

\* In this step slot c ran _getToken's test (a call started or moved on).
RanGetToken(c) ==
    /\ calls[c].pc # "refreshing"
    /\ InFlight(calls'[c])
    /\ calls'[c] # calls[c]

\* In this step slot c sent an API request.
SentApi(c) == calls'[c].pc = "requesting" /\ calls'[c] # calls[c]

\* In this step slot c sent a token-endpoint request.
SentTokenRequest(c) == calls'[c].pc = "refreshing" /\ calls[c].pc # "refreshing"

\* In this step slot c received a 200 answer of the token endpoint.
GotTokenOK(c) ==
    calls[c].pc = "refreshing" /\ calls'[c] # calls[c] /\ issued' = issued + 1

\* In this step slot c's token request failed (no token was issued to it).
GotTokenFailure(c) ==
    calls[c].pc = "refreshing" /\ calls'[c] # calls[c] /\ issued' = issued

\* C1: every API request a read facade method sends carries the stored
\* service token, and that token is not expired: now < expiresIn when
\* _getToken hands it out.
C1_HandedTokenNotExpired ==
    [][\A c \in Calls :
        SentApi(c) => calls'[c].bearer = token' /\ now' < expiresIn']_vars

\* C2: _getToken invokes _refreshToken if and only if no token has been issued
\* yet or now >= expiresIn - 5000; otherwise it returns the stored token
\* without a token-endpoint request.
C2_RefreshIffStale ==
    [][\A c \in Calls :
        RanGetToken(c) =>
            (SentTokenRequest(c) <=> Stale(token, expiresIn, now))]_vars

\* C3: for non-overlapping calls, a call that starts with a non-stale token
\* sends its API request at once, with no token-endpoint request; a call that
\* starts with a stale token sends one token-endpoint request first, and when
\* that is answered 200 it sends its API request, not a second token request.
C3_OneRefreshPerStaleCall ==
    [][\A c \in Calls :
        /\ (~InFlight(calls[c]) /\ InFlight(calls'[c])) =>
            IF Stale(token, expiresIn, now)
            THEN SentTokenRequest(c)
            ELSE SentApi(c)
        /\ GotTokenOK(c) => SentApi(c)]_vars

\* C4: a token-endpoint request has grant_type=client_credentials exactly when
\* no token was ever issued to the adapter, and otherwise
\* grant_type=refresh_token with the refresh token of the last successful
\* refresh; both carry the configured client id and secret as Basic auth.
C4_GrantFollowsIssuance ==
    [][\A c \in Calls :
        SentTokenRequest(c) =>
            /\ calls'[c].params.auth =
                    [user |-> "myclientid", pass |-> "myclientsecret"]
            /\ calls'[c].params.form =
                    IF lastIssued = NoBody
                    THEN [grant_type |-> "client_credentials"]
                    ELSE [grant_type |-> "refresh_token",
                          refresh_token |-> lastIssued.body.refresh_token]]_vars

\* C4 witness: a refresh_token-grant request is in flight.
C4_Witness ==
    \E c \in Calls :
        /\ calls[c].pc = "refreshing"
        /\ calls[c].params.form.grant_type = "refresh_token"

\* C5: when the token request of a facade call fails, the call rejects at
\* once: it sends neither its API request nor another token request.
C5_RefreshFailureRejects ==
    [][\A c \in Calls : GotTokenFailure(c) => calls'[c].pc = "rejected"]_vars

\* C5 witness: a call was rejected before any token was issued, so by the
\* failure of its own token request.
C5_Witness == \E c \in Calls : calls[c].pc = "rejected" /\ issued = 0

\* C6: after the first successful issuance the stored refresh token is
\* non-empty (it is the one of the last answer), and every refresh_token
\* request carries a refresh token the endpoint issued.
C6_RefreshTokenKept ==
    lastIssued # NoBody =>
        /\ refreshToken # EMPTY
        /\ refreshToken = lastIssued.body.refresh_token
        /\ \A c \in Calls :
            (calls[c].pc = "refreshing"
                /\ calls[c].params.form.grant_type = "refresh_token") =>
              \E n \in 1..issued :
                calls[c].params.form.refresh_token = RefreshTokenOf(n)

\* C6 witness: a refresh request reuses the refresh token that an earlier
\* refresh_token-grant refresh stored.
C6_Witness ==
    \E c \in Calls :
        /\ calls[c].pc = "refreshing"
        /\ calls[c].params.form = [grant_type |-> "refresh_token",
                                   refresh_token |-> RefreshTokenOf(2)]
        /\ refreshToken = RefreshTokenOf(2)

\* C7: with overlapping refreshes, a call whose token request is answered 200
\* goes on to its API request with the token just stored, no API request
\* goes out without a token, and the stored token is always the one of the
\* refresh that completed last.
C7_LastWriterWins ==
    [][\A c \in Calls :
        /\ GotTokenOK(c) =>
            /\ calls'[c].pc = "requesting"
            /\ calls'[c].bearer = lastIssued'.body.access_token
        /\ SentApi(c) => calls'[c].bearer # EMPTY
        /\ lastIssued' # NoBody => token' = lastIssued'.body.access_token]_vars

\* C7 witness: slot c's refresh of the stale token 1 has completed (token 2)
\* while slot d's refresh of the same stale token is still in flight.
C7_Witness ==
    \E c, d \in Calls :
        /\ calls[c].pc = "requesting" /\ calls[c].bearer = AccessToken(2)
        /\ calls[d].pc = "refreshing"
        /\ calls[d].params.form = [grant_type |-> "refresh_token",
                                   refresh_token |-> RefreshTokenOf(1)]
        /\ token = AccessToken(2)

----------------------------------------------------------------------------
(* Properties of the webhook normalizer *)

\* The supported (kind, action) table of the webhook normalizer.
SupportedKeys ==
    {<<"repo", ":", "push">>, <<"pullrequest", ":", "created">>,
     <<"pullrequest", ":", "updated">>, <<"pullrequest", ":", "fullfilled">>,
     <<"pullrequest", ":", "rejected">>}

ClassOf(key) ==
    CASE key = <<"repo", ":", "push">> -> [type |-> "repo", action |-> "push"]
      [] key = <<"pullrequest", ":", "created">> -> [type |-> "pr", action |-> "opened"]
      [] key = <<"pullrequest", ":", "updated">> -> [type |-> "pr", action |-> "synchronized"]
      [] key = <<"pullrequest", ":", "fullfilled">> -> [type |-> "pr", action |-> "closed"]
      [] key = <<"pullrequest", ":", "rejected">> -> [type |-> "pr", action |-> "closed"]

HookKey == Prop(hookHeaders, "x-event-key")
HookParsed == hookResult # NoHook
SupportedDelivery == HookKey.t = "string" /\ HookKey.s \in SupportedKeys
UnsupportedDelivery == HookKey.t = "string" /\ HookKey.s \notin SupportedKeys

\* The payload holds what the normalizer dereferences: the repository's HTML
\* link and, for a push, the list of changes.
WellFormedPayload ==
    /\ Reach(hookPayload, <<"repository", "links", "html", "href">>).t = "string"
    /\ HookKey.s = <<"repo", ":", "push">> =>
            Reach(hookPayload, <<"push", "changes">>).t = "array"

\* C8: for every event key outside the supported table parseHook resolves to
\* null, whatever the payload; it neither throws nor rejects.
C8_UnsupportedResolvesNull ==
    (HookParsed /\ UnsupportedDelivery) => hookResult = Resolved(Null)

\* C8 witness: pullrequest:comment_created with the payload {} resolved to null.
C8_Witness ==
    /\ HookKey = Str(<<"pullrequest", ":", "comment_created">>)
    /\ hookPayload = Obj(EmptyObj)
    /\ hookResult = Resolved(Null)

\* C9: a supported event key with a well-formed payload resolves to an event
\* whose type and action are those of the table.
C9_ClassifiesByTable ==
    (HookParsed /\ SupportedDelivery /\ WellFormedPayload) =>
        /\ hookResult.k = "resolved"
        /\ hookResult.v.t = "object"
        /\ hookResult.v.f.type = Str(<<ClassOf(HookKey.s).type>>)
        /\ hookResult.v.f.action = Str(<<ClassOf(HookKey.s).action>>)

\* C9 witness: pullrequest:fullfilled was classified (pr, closed).
C9_Witness ==
    /\ HookParsed
    /\ HookKey = Str(<<"pullrequest", ":", "fullfilled">>)
    /\ hookResult.k = "resolved"
    /\ hookResult.v.t = "object"
    /\ hookResult.v.f.type = Str(<<"pr">>)
    /\ hookResult.v.f.action = Str(<<"closed">>)

HookHandled == canResult # NoHook

\* C11: canHandleWebhook never throws and never rejects; when normalization
\* raises an exception (no event-key header, a required payload field
\* missing) it resolves to false.
C11_CanHandleNeverThrows ==
    HookHandled =>
        /\ canResult.k = "resolved"
        /\ ParseHook(hookHeaders, hookPayload).k = "thrown" =>
                canResult = Resolved(Bool(FALSE))

\* The text of a URL after its first '//'.
AfterSlashes(text) ==
    LET i == CHOOSE j \in 1..Len(text) :
                text[j] = "//" /\ \A k \in 1..(j - 1) : text[k] # "//"
    IN SubSeq(text, i + 1, Len(text))

\* C12: when parseHook resolves, canHandleWebhook resolves to false if the
\* result is null, and otherwise to true exactly when the text after '//' in
\* the event's checkoutUrl starts with the adapter's hostname.
C12_CanHandleByHostPrefix ==
    (HookParsed /\ HookHandled /\ hookResult.k = "resolved") =>
        IF hookResult.v = Null
        THEN canResult = Resolved(Bool(FALSE))
        ELSE canResult =
                Resolved(Bool(Head(AfterSlashes(hookResult.v.f.checkoutUrl.s)) = "bitbucket.org"))

\* C12 witness: a push of a repository on a host that only starts with the
\* hostname was accepted.
C12_Witness ==
    /\ HookParsed
    /\ HookKey = Str(<<"repo", ":", "push">>)
    /\ hookResult.k = "resolved"
    /\ hookResult.v.f.checkoutUrl =
            Str(<<"https:", "//", "bitbucket.org", ".example.com", "/batman/test", ".git">>)
    /\ canResult = Resolved(Bool(TRUE))

PullRequestKeys == SupportedKeys \ {<<"repo", ":", "push">>}

HookHref == Reach(hookPayload, <<"repository", "links", "html", "href">>)

----------------------------------------------------------------------------
(* Properties of the webhook registrar *)

\* The uuids of the repository's hooks that have the target's url.
UrlHooks(hooks) == {i \in 1..Len(hooks) : hooks[i] = "url"}

\* The uuid a request to .../hooks/<uuid> names.
UuidOf(req) == req.url[Len(req.url)]

\* In this step slot c sent the GET of a hook page.
SentPage(c) == regs'[c].pc = "finding" /\ regs'[c] # regs[c]

\* In this step slot c received the answer to the GET of a hook page.
GotPage(c) == regs[c].pc = "finding" /\ regs'[c] # regs[c]

\* In this step slot c sent its POST or PUT.
SentWrite(c) == regs'[c].pc = "writing" /\ regs[c].pc # "writing"

\* In this step slot c received the answer to its POST or PUT.
GotWrite(c) == regs[c].pc = "writing" /\ regs'[c] # regs[c]

\* After this step slot c is on its way to the page after regs[c].page.
GoesToNextPage(c) ==
    /\ regs'[c].pc \in {"finding", "refreshing"}
    /\ regs'[c].page = regs[c].page + 1

\* C15: with non-overlapping calls for one repository and webhookUrl, a POST
\* is issued only while no hook with that url exists; once one exists every
\* call issues a PUT to that hook's uuid, and the repository never holds more
\* than one hook with the url.
C15_SecondCallUpdates ==
    [][/\ \A c \in Calls :
            SentWrite(c) =>
                IF UrlHooks(repoHooks) = {}
                THEN regs'[c].req.method = "POST"
                ELSE /\ regs'[c].req.method = "PUT"
                     /\ UuidOf(regs'[c].req) \in UrlHooks(repoHooks)
       /\ Cardinality(UrlHooks(repoHooks')) <= 1]_vars

\* C15 witness: the hook the first call created in an empty collection is
\* being updated by a later call.
C15_Witness ==
    /\ repoHooks = <<"url">>
    /\ \E c \in Calls :
        /\ regs[c].pc = "writing"
        /\ regs[c].req.method = "PUT"
        /\ UuidOf(regs[c].req) = 1

\* C16: find-then-create is not atomic.  A call whose search ended without a
\* match issues a POST whatever the other calls have done since, and a POST
\* answered 2xx has added a hook even when the collection holds one with the
\* same url already; so two overlapping calls can leave two hooks with the url.
C16_FindThenCreateNotAtomic ==
    [][\A c \in Calls :
        /\ (GotPage(c) /\ SentWrite(c)) =>
            (regs'[c].req.method = "POST" <=>
                FindHook(HooksPage(repoHooks, regs[c].page), "url") = Undefined)
        /\ (GotWrite(c) /\ regs[c].req.method = "POST" /\ regs'[c].pc = "resolved") =>
            repoHooks' = Append(repoHooks, "url")]_vars

\* C16 witness: two calls started on an empty collection have both resolved
\* and the repository holds two hooks with the url.
C16_Witness ==
    /\ repoHooks = <<"url", "url">>
    /\ \E c, d \in Calls :
        c # d /\ regs[c].pc = "resolved" /\ regs[d].pc = "resolved"

\* C17: pages are requested in the order 1, 2, 3, ...; after the answer to
\* page N the search goes on to page N+1 exactly when page N holds no hook
\* with the url and holds 30 hooks, and otherwise it ends there.
C17_NextPageIffFullWithoutMatch ==
    [][\A c \in Calls :
        /\ SentPage(c) =>
            regs'[c].page = (IF RegInFlight(regs[c]) THEN regs'[c].gets ELSE 1)
        /\ (GotPage(c) /\ regs'[c].pc # "rejected") =>
            LET values == HooksPage(repoHooks, regs[c].page)
            IN  /\ GoesToNextPage(c) <=>
                    (FindHook(values, "url") = Undefined
                        /\ Len(values) = WEBHOOK_PAGE_SIZE)
                /\ ~GoesToNextPage(c) => regs'[c].pc = "writing"]_vars

\* C18: a search of a collection of n hooks issues at most floor(n/30)+1
\* GETs, and ends with the hook of the url if the collection holds one and
\* with undefined otherwise.
C18_SearchEndsWithinPages ==
    [][\A c \in Calls :
        /\ SentPage(c) => regs'[c].gets <= (Len(repoHooks) \div 30) + 1
        /\ SentWrite(c) =>
            IF UrlHooks(repoHooks) = {}
            THEN regs'[c].req.method = "POST"
            ELSE UuidOf(regs'[c].req) \in UrlHooks(repoHooks)]_vars

\* C19: when the GET of a hook page is rejected by the executor or answered
\* non-2xx, _addWebhook rejects with that error in the same step: no further
\* page is requested and no POST or PUT is issued.
C19_PageFailureRejects ==
    [][\A c \in Calls :
        (GotPage(c) /\ regs'[c].last # [statusCode |-> 200]) =>
            /\ regs'[c].pc = "rejected"
            /\ regs'[c].error =
                    IF regs'[c].last = TransportError
                    THEN TransportError
                    ELSE UnavailableError(regs'[c].last.statusCode)
            /\ regs'[c].page \in {0, regs[c].page}
            /\ regs'[c].req = None
            /\ regs'[c].params = None
            /\ repoHooks' = repoHooks]_vars

\* C19 witness: a call was rejected with the 403 of its second page.
C19_Witness ==
    \E c \in Calls :
        /\ regs[c].pc = "rejected"
        /\ regs[c].error = UnavailableError(403)
        /\ regs[c].page = 2

\* C20: _createWebhook issues a PUT to .../hooks/<uuid of hookInfo> when the
\* search gave a hook and a POST to .../hooks otherwise; the call issues no
\* other request after it, and rejects with checkResponseError's error when
\* the answer is not 2xx.
C20_PutWhenFoundElsePost ==
    [][\A c \in Calls :
        /\ SentWrite(c) =>
            LET hookInfo == FindHook(HooksPage(repoHooks, regs[c].page), "url")
                base == <<"https://api.bitbucket.org/2.0", "/repositories/", "repoId", "/hooks">>
            IN  /\ regs[c].pc = "finding"
                /\ IF hookInfo = Undefined
                   THEN regs'[c].req.method = "POST" /\ regs'[c].req.url = base
                   ELSE /\ regs'[c].req.method = "PUT"
                        /\ regs'[c].req.url = base \o <<"/", hookInfo.uuid>>
        /\ GotWrite(c) =>
            /\ ~RegInFlight(regs'[c])
            /\ regs'[c].req = None
            /\ IF regs'[c].last = TransportError
               THEN regs'[c].pc = "rejected" /\ regs'[c].error = TransportError
               ELSE IF regs'[c].last.statusCode \in 200..299
               THEN regs'[c].pc = "resolved"
               ELSE regs'[c].pc = "rejected"
                    /\ regs'[c].error = UnavailableError(regs'[c].last.statusCode)]_vars

\* C20 witness: the hook found as the 30th of its page is being replaced.
C20_Witness ==
    \E c \in Calls :
        /\ regs[c].pc = "writing"
        /\ regs[c].req.method = "PUT"
        /\ regs[c].req.url =
            <<"https://api.bitbucket.org/2.0", "/repositories/", "repoId", "/hooks", "/", 30>>

----------------------------------------------------------------------------
(* Frame and integrity of the service token *)

\* C25: the service token is empty after construction, and a step changes
\* token, refreshToken or expiresIn only when it is the 200 answer to a
\* token request, which stores that answer.
C25_TokenChangesOnlyOnRefresh ==
    /\ (token = EMPTY /\ refreshToken = EMPTY /\ expiresIn = 0)
    /\ [][tokenVars' # tokenVars =>
            /\ \E c \in Calls : GotTokenOK(c)
            /\ token' = AccessToken(issued')
            /\ refreshToken' = RefreshTokenOf(issued')]_vars

\* C25 witness: calls have failed and resolved since the first token was
\* stored, and it is still the stored one.
C25_Witness ==
    /\ token = AccessToken(1)
    /\ issued = 1
    /\ \E c, d \in Calls : calls[c].pc = "rejected" /\ calls[d].pc = "resolved"

\* C27: a failed token request leaves token, refreshToken and expiresIn as
\* they were, so (calls not overlapping) the token is still due for a refresh
\* and the next refresh is the request that failed, with the same grant.
C27_FailedRefreshKeepsToken ==
    [][\A c \in Calls :
        GotTokenFailure(c) =>
            /\ tokenVars' = tokenVars
            /\ NeedsRefresh(expiresIn', now')
            /\ RefreshParams(token', refreshToken') = calls[c].params]_vars

\* C27 witness: the first refresh failed (no token was ever issued) and the
\* next call is attempting it again with the client_credentials grant.
C27_Witness ==
    \E c, d \in Calls :
        /\ calls[c].pc = "rejected"
        /\ issued = 0
        /\ calls[d].pc = "refreshing"
        /\ calls[d].params.form = [grant_type |-> "client_credentials"]

\* C28: the stored triple is the initial empty one, or all three fields come
\* from the last token answer processed, with expiresIn = the time it was
\* processed + expires_in * 1000.
C28_TripleFromOneResponse ==
    IF lastIssued = NoBody
    THEN token = EMPTY /\ refreshToken = EMPTY /\ expiresIn = 0
    ELSE /\ token = lastIssued.body.access_token
         /\ refreshToken = lastIssued.body.refresh_token
         /\ expiresIn = lastIssued.at + (lastIssued.body.expires_in * 1000)

\* C28 witness: a second refresh has overwritten the first while a third,
\* started from the empty token, is still in flight.
C28_Witness ==
    /\ token = AccessToken(2)
    /\ refreshToken = RefreshTokenOf(2)
    /\ \E c \in Calls :
        /\ calls[c].pc = "refreshing"
        /\ calls[c].params.form = [grant_type |-> "client_credentials"]

----------------------------------------------------------------------------
(* The registrar's subscription against the normalizer *)

\* The elements of a sequence.
Range(seq) == {seq[i] : i \in 1..Len(seq)}

\* The event keys _createWebhook subscribes to when config.actions is empty.
DefaultEvents ==
    Range(CreateWebhookParams(
        [hookInfo |-> Undefined, repoId |-> <<"repoId">>, actions |-> <<>>,
         token |-> "oauthToken", url |-> "url"]).body.events)

\* C29: a delivery of an event key that _createWebhook subscribes to by
\* default, or of a key of the pr list of the webhook events mapping, with a
\* well-formed payload, is parsed to an event, not to null.
C29_SubscribedEventsParsed ==
    (HookParsed /\ HookKey.t = "string"
        /\ HookKey.s \in DefaultEvents \cup Range(WebhookEventsMapping.pr)
        /\ WellFormedPayload) =>
        /\ hookResult.k = "resolved"
        /\ hookResult.v # Null

----------------------------------------------------------------------------
(* Properties of parseUrl *)

UrlUuid == Reach(urlCall.body, <<"target", "repository", "uuid">>)

\* C23: when parseUrl resolves for a checkout URL of host bitbucket.org, in
\* the ssh or the https form, getScmUriParts of the result has the hostname
\* bitbucket.org, the repoId '<owner>/<uuid the provider answered>' and the
\* branch of the URL, 'master' when the URL has no #branch.
C23_ScmUriRoundTrip ==
    (urlCall.pc = "resolved" /\ UrlUuid.t = "string") =>
        GetScmUriParts(urlCall.result.v) =
            [hostname |-> <<"bitbucket.org">>,
             repoId |-> <<urlCall.parts.owner, "/">> \o UrlUuid.s,
             branch |-> IF urlCall.parts.branch = <<>> THEN <<"master">>
                        ELSE urlCall.parts.branch]
C23_Witness ==
    /\ urlCall.pc = "resolved"
    /\ urlCall.parts.scheme = "https"
    /\ urlCall.parts.branch = <<>>
    /\ UrlUuid = Str(<<"{a1b2c3d4}">>)

UrlOfOtherHost(rec) == rec.pc # "idle" /\ rec.parts.host # hostname

\* C30: a parseUrl call whose checkout URL names another host than the
\* adapter's is rejected with 'This checkoutUrl is not supported for your
\* current login host.' without any request sent, the token endpoint's
\* included, and the stored token does not change during the call.
C30_OtherHostRejectsOffline ==
    /\ [](UrlOfOtherHost(urlCall) =>
            /\ urlCall.pc = "rejected"
            /\ urlCall.sent = 0
            /\ urlCall.result = Rejected(ErrorOf(
                <<"This checkoutUrl is not supported for your current login host.">>)))
    /\ [][UrlOfOtherHost(urlCall') => tokenVars' = tokenVars]_vars

----------------------------------------------------------------------------
(* Properties of checkResponseError *)

NotFoundBody == Obj([error |-> Obj([message |-> Str(<<"Not Found">>)])])
TwoScopesBody ==
    Obj([error |-> Obj([detail |-> Obj([required |->
        Arr(<<Str(<<"webhook">>), Str(<<"pullrequest">>)>>)])])])

\* The message of the error expected for a body: body.error.message where the
\* body has one.
ExpectedMessage(status, body) ==
    CASE body = NotFoundBody -> <<"Not Found">>
      [] body.t = "object" /\ "type" \in DOMAIN body.f -> ScopeMessage
      [] OTHER -> <<"SCM service unavailable (", ToString(status), ").">>

\* The reason expected for a body: body.error.detail.required where the body
\* has one, else the body as JSON text.
ExpectedReason(body) ==
    CASE body = Undefined -> <<"undefined">>
      [] body = Null -> <<"null">>
      [] body = Str(<<"Bad Gateway">>) -> <<"\"", "Bad Gateway", "\"">>
      [] body = Obj(EmptyObj) -> <<"{", "}">>
      [] body = Obj([error |-> Null]) -> <<"{", "\"", "error", "\":", "null", "}">>
      [] body = NotFoundBody ->
            <<"{", "\"", "error", "\":", "{", "\"", "message", "\":",
              "\"", "Not Found", "\"", "}", "}">>
      [] body = TwoScopesBody -> <<"webhook", ",", "pullrequest">>
      [] OTHER -> <<"webhook">>

----------------------------------------------------------------------------
(* Properties of getPermissions *)

PermProbeUrl ==
    <<"https://api.bitbucket.org/2.0", "/repositories/", "repoIdPrefix",
      "?q=uuid%3D%22", "repoIdSuffix1", "%22">>

\* The uuids of the repositories listed in the answer to the probe sent with
\* the given role filter.
ListedWith(filter) ==
    LET i == CHOOSE j \in 1..Len(permCall.probes) :
                permCall.probes[j].req.url = PermProbeUrl \o filter
        body == permCall.probes[i].body
    IN IF "values" \in DOMAIN body.f
       THEN {body.f.values.e[k].f.uuid.s : k \in 1..Len(body.f.values.e)}
       ELSE {}

\* C21: the permission object getPermissions resolves to has admin true iff the
\* repository's uuid is listed in the answer to the probe filtered by
\* role=admin, push iff in the answer to the probe filtered by
\* role=contributor, pull iff in the answer to the unfiltered probe, in
\* whatever order the three answers arrive.
C21_PermissionsByProbe ==
    permCall.pc = "resolved" =>
        permCall.result =
            Resolved([admin |-> <<"repoIdSuffix1">> \in ListedWith(<<"&role=admin">>),
                      push |-> <<"repoIdSuffix1">> \in ListedWith(<<"&role=contributor">>),
                      pull |-> <<"repoIdSuffix1">> \in ListedWith(<<>>)])
C21_Witness ==
    /\ permCall.pc = "resolved"
    /\ permCall.result = Resolved([admin |-> FALSE, push |-> TRUE, pull |-> FALSE])

PermExists2xx ==
    /\ "statusCode" \in DOMAIN permCall.exists
    /\ permCall.exists.statusCode \in 200..299

\* C22: the probes are sent only after the existence request was answered
\* 2xx, and then all three are sent; an existence answer that is not 2xx
\* rejects the call with no probe sent; and once a probe has failed (an error,
\* or a status other than 200) the call is rejected, with no permission object.
C22_ProbesAfterExistence ==
    /\ permCall.probes # <<>> =>
            /\ PermExists2xx
            /\ Len(permCall.probes) = 3
            /\ \A i \in 1..3 : permCall.probes[i].req.method = "GET"
    /\ (permCall.exists # None /\ ~PermExists2xx) =>
            /\ permCall.pc = "rejected"
            /\ permCall.result.k = "rejected"
            /\ permCall.probes = <<>>
    /\ (\E i \in 1..Len(permCall.probes) : permCall.probes[i].st = "rejected") =>
            /\ permCall.pc = "rejected"
            /\ permCall.result.k = "rejected"
C22_Witness ==
    /\ permCall.pc = "rejected"
    /\ PermExists2xx
    /\ permCall.exists.statusCode = 201
    /\ Len(permCall.probes) = 3
    /\ permCall.probes[1].st = "fulfilled"
    /\ permCall.probes[2].st = "rejected"
    /\ permCall.probes[3].st = "sent"

----------------------------------------------------------------------------
(* Who authenticates which request *)

\* Slot c sends an API request in this step.
SentRequest(c) == regs'[c].req # None /\ regs'[c].req # regs[c].req

====
